---- MODULE Spec2Model ----
(***************************************************************************)
(* Manifest-driven dual command engine of the RunOS CLI: the request       *)
(* building of the CLI leaf (dynacmd.Executor) and of the MCP tool         *)
(* dispatch (mcp.CommandExecutor), and the JSON-RPC loop of mcp.Server.    *)
(*                                                                         *)
(* Go strings are sequences of one-character strings, so that              *)
(* strings.Contains / strings.Replace / strings.SplitN are computed on the *)
(* characters. JSON values (interface{}) are records [k, v] tagged with    *)
(* their kind; a Go map[string]interface{} is a set of <<key, value>>      *)
(* pairs with unique keys (json.Marshal sorts the keys, so the set is the  *)
(* marshalled body).                                                       *)
(***************************************************************************)
EXTENDS Integers, Sequences, FiniteSets, TLC

----------------------------------------------------------------------------
(* String literals of the source and of the inputs *)
s_empty == <<>>
s_aid == <<":", "a", "i", "d">>
s_cid == <<":", "c", "i", "d">>
s_colon == <<":">>
s_lbrace == <<"{">>
s_rbrace == <<"}">>
s_underscore == <<"_">>
s_slash == <<"/">>
s_key == <<"k", "e", "y">>
s_value == <<"v", "a", "l", "u", "e">>
s_method == <<"m", "e", "t", "h", "o", "d">>
s_endpoint == <<"e", "n", "d", "p", "o", "i", "n", "t">>
s_cidArg == <<"c", "i", "d">>
s_body == <<"b", "o", "d", "y">>
s_api_request == <<"a", "p", "i", "_", "r", "e", "q", "u", "e", "s", "t">>
s_GET == <<"G", "E", "T">>
s_POST == <<"P", "O", "S", "T">>
s_PUT == <<"P", "U", "T">>
s_PATCH == <<"P", "A", "T", "C", "H">>
s_DELETE == <<"D", "E", "L", "E", "T", "E">>

s_name == <<"n", "a", "m", "e">>
s_tags == <<"t", "a", "g", "s">>
s_x == <<"x">>
s_force == <<"f", "o", "r", "c", "e">>
s_valkeyPath == <<"s", "e", "r", "v", "i", "c", "e", "s", "/", "a", "d", "d", "/", "v", "a", "l", "k", "e", "y">>
s_valkeyEndpoint == <<"/", "v", "1", "/", "c", "l", "u", "s", "t", "e", "r", "s", "/", ":", "c", "i", "d", "/", "s", "e", "r", "v", "i", "c", "e", "s">>
s_valkeyURL == <<"/", "v", "1", "/", "c", "l", "u", "s", "t", "e", "r", "s", "/", "c", "1", "/", "s", "e", "r", "v", "i", "c", "e", "s">>
s_listPath == <<"s", "v", "c", "/", "l", "i", "s", "t">>
s_listEndpoint == <<"/", "a", "/", ":", "a", "i", "d", "/", "s", "v", "c">>
s_tagPath == <<"s", "v", "c", "/", "t", "a", "g">>
s_tagEndpoint == <<"/", "c", "/", ":", "c", "i", "d", "/", "s", "/", "{", "n", "a", "m", "e", "}">>
s_userPath == <<"d", "b", "/", "a", "d", "d", "_", "u", "s", "e", "r">>
s_userEndpoint == <<"/", "d", "b", "/", "u">>
s_nope == <<"n", "o", "p", "e">>
s_baseURL == <<"h", "t", "t", "p", ":", "/", "/", "b">>
s_A == <<"A">>
s_c1 == <<"c", "1">>
s_myredis == <<"m", "y", "r", "e", "d", "i", "s">>
s_envprod == <<"e", "n", "v", ":", "p", "r", "o", "d">>
s_env == <<"e", "n", "v">>
s_prod == <<"p", "r", "o", "d">>
s_debug == <<"d", "e", "b", "u", "g">>
s_1 == <<"1">>
s_2 == <<"2">>
s_3 == <<"3">>
s_namespace == <<"n", "a", "m", "e", "s", "p", "a", "c", "e">>
s_owner == <<"o", "w", "n", "e", "r">>
s_bothPath == <<"s", "v", "c", "/", "g", "e", "t">>
s_bothEndpoint == <<"/", "s", "/", "{", "n", "a", "m", "e", "}", "/", ":", "n", "a", "m", "e">>
s_nsPath == <<"n", "s", "/", "g", "e", "t">>
s_nsEndpoint == <<"/", "n", "/", ":", "n", "a", "m", "e", "/", ":", "n", "a", "m", "e", "s", "p", "a", "c", "e", "/", "{", "n", "a", "m", "e", "s", "p", "a", "c", "e", "}">>
s_ownPath == <<"s", "v", "c", "/", "o", "w", "n">>
s_ownEndpoint == <<"/", "o">>
s_kind == <<"k", "i", "n", "d">>
s_kindPath == <<"s", "v", "c", "/", "k", "i", "n", "d">>
s_kindEndpoint == <<"/", "k", "/", ":", "k", "i", "n", "d">>
s_file == <<"f", "i", "l", "e">>
s_json == <<"j", "s", "o", "n">>
s_wait == <<"w", "a", "i", "t">>
s_level == <<"l", "e", "v", "e", "l">>
s_delPath == <<"s", "v", "c", "/", "d", "e", "l">>
s_delEndpoint == <<"/", "d", "/", "{", "n", "a", "m", "e", "}">>
s_k_v_w == <<"k", ":", "v", ":", "w">>
s_pA == <<"a">>
s_pAB == <<"a", "/", "b">>
s_pABC == <<"a", "/", "b", "/", "c">>
s_pAD == <<"a", "/", "d">>
s_rawEndpoint == <<"/", "r", "a", "w">>
s_respBody == <<"{", "}">>

----------------------------------------------------------------------------
(* package strings *)

\* s[i..] starts with p
HasPrefixAt(s, p, i) ==
    /\ i + Len(p) - 1 <= Len(s)
    /\ \A j \in 1..Len(p) : s[i + j - 1] = p[j]

\* strings.Contains(s, substr)
Contains(s, substr) ==
    \E i \in 1..(Len(s) + 1) : HasPrefixAt(s, substr, i)

RECURSIVE ReplaceFrom(_, _, _, _)
ReplaceFrom(s, old, new, i) ==
    IF i > Len(s) THEN <<>>
    ELSE IF HasPrefixAt(s, old, i)
         THEN new \o ReplaceFrom(s, old, new, i + Len(old))
         ELSE <<s[i]>> \o ReplaceFrom(s, old, new, i + 1)

\* strings.ReplaceAll(s, old, new) and strings.Replace(s, old, new, -1),
\* for a non-empty old: leftmost non-overlapping occurrences, one pass
ReplaceAll(s, old, new) == ReplaceFrom(s, old, new, 1)

\* strings.Split(s, sep) for a one-character sep
RECURSIVE Split(_, _)
Split(s, sep) ==
    IF \A i \in 1..Len(s) : s[i] # sep THEN <<s>>
    ELSE LET i == CHOOSE j \in 1..Len(s) :
                    s[j] = sep /\ \A o \in 1..(j - 1) : s[o] # sep
         IN  <<SubSeq(s, 1, i - 1)>> \o Split(SubSeq(s, i + 1, Len(s)), sep)

\* index of the first occurrence of the one-character sep in s, 0 if none
IndexOf(s, sep) ==
    IF \E i \in 1..Len(s) : s[i] = sep
    THEN CHOOSE i \in 1..Len(s) : s[i] = sep /\ \A j \in 1..(i - 1) : s[j] # sep
    ELSE 0

\* a variant that splits at the last colon
SplitN2_lastColon(s) ==
    LET at == {i \in 1..Len(s) : s[i] = ":"}
        i == CHOOSE j \in at : \A o \in at : o <= j
    IN  IF at = {} THEN <<s>>
        ELSE <<SubSeq(s, 1, i - 1), SubSeq(s, i + 1, Len(s))>>

\* strings.SplitN(s, ":", 2)
SplitN2(s) ==
    LET i == IndexOf(s, ":")
    IN  IF i = 0 THEN <<s>>
        ELSE <<SubSeq(s, 1, i - 1), SubSeq(s, i + 1, Len(s))>>

----------------------------------------------------------------------------
(* interface{} values as decoded from / encoded to JSON *)
JNull == [k |-> "null", v |-> <<>>]
JStr(s) == [k |-> "string", v |-> s]
\* a number, held as its decimal digits
JNum(digits) == [k |-> "number", v |-> digits]
JBool(b) == [k |-> "bool", v |-> IF b THEN <<"true">> ELSE <<"false">>]
JArr(items) == [k |-> "array", v |-> items]
JObj(pairs) == [k |-> "object", v |-> pairs]

\* map[string]interface{}: a set of <<key, value>> pairs
EmptyMap == {}
Has(m, key) == \E p \in m : p[1] = key
Get(m, key) == (CHOOSE p \in m : p[1] = key)[2]
Put(m, key, val) == {p \in m : p[1] # key} \cup {<<key, val>>}
Keys(m) == {p[1] : p \in m}

\* val.(string): the string and ok
IsString(m, key) == Has(m, key) /\ Get(m, key).k = "string"

\* fmt.Sprintf("%v", val) of a string, a float64 holding a small integer,
\* or a bool
SprintfV(val) ==
    CASE val.k = "string" -> val.v
      [] val.k = "number" -> val.v
      [] val.k = "bool" -> IF val = JBool(TRUE) THEN <<"t", "r", "u", "e">>
                            ELSE <<"f", "a", "l", "s", "e">>

----------------------------------------------------------------------------
(* package manifest: Manifest, Command, Input, Field, Flag *)

Field(name, type, required, default, enum, format, positional) ==
    [Name |-> name, Type |-> type, Required |-> required, Default |-> default,
     Enum |-> enum, Format |-> format, Positional |-> positional]

Flag(name, default) == [Name |-> name, Default |-> default]

\* Input == nil is hasInput = FALSE
Command(command, endpoint, method, hasInput, fields, flags, returnsJob) ==
    [Command |-> command, Endpoint |-> endpoint, Method |-> method,
     HasInput |-> hasInput, Fields |-> fields, Flags |-> flags,
     ReturnsJob |-> returnsJob]

fName == Field(s_name, "string", TRUE, JNull, <<>>, "", TRUE)
fTags == Field(s_tags, "array", FALSE, JNull, <<>>, "key_value", FALSE)
fX == Field(s_x, "integer", FALSE, JNum(s_1), <<>>, "", FALSE)
flForce == Flag(s_force, FALSE)

\* the operation of the spec's example
opValkey == Command(s_valkeyPath, s_valkeyEndpoint, s_POST, TRUE, <<fName>>, <<>>, FALSE)
opList == Command(s_listPath, s_listEndpoint, s_GET, FALSE, <<>>, <<>>, FALSE)
opTag == Command(s_tagPath, s_tagEndpoint, s_POST, TRUE, <<fName, fTags, fX>>, <<flForce>>, TRUE)
opUser == Command(s_userPath, s_userEndpoint, s_POST, TRUE, <<fX>>, <<>>, FALSE)
fNamespace == Field(s_namespace, "string", TRUE, JNull, <<>>, "", TRUE)
fOwner == Field(s_owner, "string", TRUE, JNull, <<>>, "", FALSE)

\* an endpoint with both placeholder styles of one field
opBoth == Command(s_bothPath, s_bothEndpoint, s_GET, TRUE, <<fName>>, <<>>, FALSE)
\* two positional fields, the name of the first a prefix of the second's
opNs == Command(s_nsPath, s_nsEndpoint, s_GET, TRUE, <<fName, fNamespace>>, <<>>, FALSE)
\* a required field backed by a flag
opOwn == Command(s_ownPath, s_ownEndpoint, s_POST, TRUE, <<fOwner>>, <<>>, FALSE)
\* a DELETE with a positional field, a defaulted field and a switch
opDel == Command(s_delPath, s_delEndpoint, s_DELETE, TRUE, <<fName, fX>>, <<flForce>>, FALSE)
\* a required positional field with an enumeration
fKind == Field(s_kind, "string", TRUE, JNull, <<s_prod, s_debug>>, "", TRUE)
\* a required positional field with an enumeration and a required flag
opKind == Command(s_kindPath, s_kindEndpoint, s_GET, TRUE, <<fKind, fOwner>>, <<>>, FALSE)
\* a required field of a type that is neither string, integer nor array
fLevel == Field(s_level, "number", TRUE, JNull, <<>>, "", FALSE)

----------------------------------------------------------------------------
(* errors (fmt.Errorf) and results *)

\* an error or a text: the format's fixed prefix, the HTTP status it embeds
\* (0 when none) and the string it embeds
Msg(prefix, status, arg) == [prefix |-> prefix, status |-> status, arg |-> arg]
NoErr == Msg("", 0, <<>>)

\* what the environment answers during one invocation: the configuration
\* file, config.Load's failures, the token refresh and the backend
Environment(cfgErr, cfgErr2, refreshToken, firebase, refreshOK, accountID, envCID, cfgCID, httpErr, status) ==
    [cfgErr |-> cfgErr, cfgErr2 |-> cfgErr2, RefreshToken |-> refreshToken,
     Firebase |-> firebase, refreshOK |-> refreshOK, AccountID |-> accountID,
     RUNOS_CLUSTER_ID |-> envCID, DefaultClusterID |-> cfgCID,
     httpErr |-> httpErr, StatusCode |-> status]

\* Config.GetDefaultClusterID
GetDefaultClusterID(env) ==
    IF env.RUNOS_CLUSTER_ID # <<>> THEN env.RUNOS_CLUSTER_ID
    ELSE env.DefaultClusterID

\* the calls an invocation makes outside the process, in order
Eff(op) ==
    [op |-> op, method |-> <<>>, url |-> <<>>, hasBody |-> FALSE,
     body |-> {}, xcid |-> <<>>]
HttpEff(method, url, hasBody, body, xcid) ==
    [op |-> "http", method |-> method, url |-> url, hasBody |-> hasBody,
     body |-> body, xcid |-> xcid]
NetworkOps == {"auth.RefreshIDToken", "http"}
NetworkCalls(log) == {i \in 1..Len(log) : log[i].op \in NetworkOps}
BackendRequests(log) == {i \in 1..Len(log) : log[i].op = "http"}

\* (string, error) of an executor, with the calls it made
Result(err, text, log) == [err |-> err, text |-> text, log |-> log]

BodyMethods == {s_POST, s_PUT, s_PATCH}

\* a variant that lets a status of exactly 400 pass
isAPIError_above400(status) == status > 400

\* resp.StatusCode >= 400
isAPIError(status) == status >= 400

\* the decimal digits of a natural number (%d, and a number in JSON)
RECURSIVE Itoa(_)
Itoa(n) ==
    LET digit == <<"0", "1", "2", "3", "4", "5", "6", "7", "8", "9">>[(n % 10) + 1]
    IN  IF n < 10 THEN <<digit>> ELSE Itoa(n \div 10) \o <<digit>>

\* Executor.getAuthToken and CommandExecutor.getAuthToken: no refresh is
\* attempted without a stored refresh token and Firebase settings
getAuthToken(env) ==
    IF ~env.RefreshToken \/ ~env.Firebase
    THEN [err |-> TRUE, log |-> <<>>]
    ELSE [err |-> ~env.refreshOK, log |-> <<Eff("auth.RefreshIDToken")>>]

----------------------------------------------------------------------------
(* package dynacmd: Executor (the CLI leaf's request building) *)

\* one CLI invocation: positional arguments, the flags the user set
\* (cmd.Flags().Changed) with their parsed values, -f, --cid
Invocation(args, flags, file, cid) ==
    [args |-> args, flags |-> flags, file |-> file, cid |-> cid]
NoFile == [given |-> FALSE, ok |-> TRUE, data |-> {}]
File(data) == [given |-> TRUE, ok |-> TRUE, data |-> data]

RECURSIVE parseKeyValueTagsFrom(_, _)
parseKeyValueTagsFrom(tags, i) ==
    IF i > Len(tags) THEN <<>>
    ELSE LET parts == SplitN2(tags[i].v)
             item == IF Len(parts) = 2
                     THEN JObj({<<s_key, JStr(parts[1])>>, <<s_value, JStr(parts[2])>>})
                     ELSE JObj({<<s_key, JStr(parts[1])>>})
         IN  <<item>> \o parseKeyValueTagsFrom(tags, i + 1)

\* parseKeyValueTags: "key:value" tokens to {key, value} objects
parseKeyValueTags(tags) == JArr(parseKeyValueTagsFrom(tags, 1))

RECURSIVE applyFieldDefaults(_, _, _)
applyFieldDefaults(fields, i, result) ==
    IF i > Len(fields) THEN result
    ELSE applyFieldDefaults(fields, i + 1,
            IF fields[i].Default # JNull /\ ~fields[i].Positional
            THEN Put(result, fields[i].Name, fields[i].Default)
            ELSE result)

RECURSIVE applyFlagDefaults(_, _, _)
applyFlagDefaults(flags, i, result) ==
    IF i > Len(flags) THEN result
    ELSE applyFlagDefaults(flags, i + 1,
            Put(result, flags[i].Name, JBool(flags[i].Default)))

\* for k, v := range fileData { result[k] = v }
mergeFile(result, fileData) ==
    {p \in result : ~Has(fileData, p[1])} \cup fileData

RECURSIVE overrideFields(_, _, _, _)
overrideFields(fields, i, changed, result) ==
    IF i > Len(fields) THEN result
    ELSE LET f == fields[i]
             val == Get(changed, f.Name)
         IN  overrideFields(fields, i + 1, changed,
                IF f.Positional \/ ~Has(changed, f.Name) THEN result
                ELSE IF f.Type = "string" \/ f.Type = "integer"
                     THEN Put(result, f.Name, val)
                ELSE IF f.Type = "array"
                     THEN IF f.Format = "key_value"
                          THEN Put(result, f.Name, parseKeyValueTags(val.v))
                          ELSE Put(result, f.Name, val)
                ELSE result)

RECURSIVE overrideFlags(_, _, _, _)
overrideFlags(flags, i, changed, result) ==
    IF i > Len(flags) THEN result
    ELSE overrideFlags(flags, i + 1, changed,
            IF Has(changed, flags[i].Name)
            THEN Put(result, flags[i].Name, Get(changed, flags[i].Name))
            ELSE result)

\* Executor.collectInput: defaults, then the -f file, then the flags set
Executor_collectInput(inv, cmdDef) ==
    IF ~cmdDef.HasInput THEN [err |-> NoErr, body |-> EmptyMap]
    ELSE LET d1 == applyFieldDefaults(cmdDef.Fields, 1, EmptyMap)
             d2 == applyFlagDefaults(cmdDef.Flags, 1, d1)
         IN  IF inv.file.given /\ ~inv.file.ok
             THEN [err |-> Msg("failed to load file: ", 0, <<>>), body |-> EmptyMap]
             ELSE LET d3 == IF inv.file.given THEN mergeFile(d2, inv.file.data) ELSE d2
                      d4 == overrideFields(cmdDef.Fields, 1, inv.flags, d3)
                  IN  [err |-> NoErr,
                       body |-> overrideFlags(cmdDef.Flags, 1, inv.flags, d4)]

RECURSIVE substituteArgs(_, _, _, _, _)
substituteArgs(fields, i, args, argIndex, result) ==
    IF i > Len(fields) THEN result
    ELSE IF fields[i].Positional /\ argIndex < Len(args)
         THEN LET value == args[argIndex + 1]
                  r1 == ReplaceAll(result, s_lbrace \o fields[i].Name \o s_rbrace, value)
                  r2 == ReplaceAll(r1, s_colon \o fields[i].Name, value)
              IN  substituteArgs(fields, i + 1, args, argIndex + 1, r2)
         ELSE substituteArgs(fields, i + 1, args, argIndex, result)

\* Executor.buildEndpoint
Executor_buildEndpoint(endpoint, args, cmdDef, env, cid) ==
    IF Contains(endpoint, s_aid) /\ env.AccountID = <<>>
    THEN [err |-> Msg("account ID not set: run 'runos login' first", 0, <<>>), url |-> <<>>]
    ELSE LET r1 == IF Contains(endpoint, s_aid)
                   THEN ReplaceAll(endpoint, s_aid, env.AccountID) ELSE endpoint
         IN  IF Contains(r1, s_cid) /\ cid = <<>>
             THEN [err |-> Msg("cluster ID required: use --cid flag or set default with 'runos config set cid <cluster-id>'", 0, <<>>),
                   url |-> <<>>]
             ELSE LET r2 == IF Contains(r1, s_cid) THEN ReplaceAll(r1, s_cid, cid) ELSE r1
                      r3 == IF cmdDef.HasInput
                            THEN substituteArgs(cmdDef.Fields, 1, args, 0, r2) ELSE r2
                  IN  [err |-> NoErr, url |-> s_baseURL \o r3]

\* a variant that sends every non-empty body, whatever the method
Executor_doRequest_anyMethod(method, url, body) ==
    HttpEff(method, url, body # EmptyMap, body, <<>>)

\* Executor.doRequest: the request put on the wire
Executor_doRequest(method, url, body) ==
    LET hasBody == body # EmptyMap /\ method \in BodyMethods
    IN  HttpEff(method, url, hasBody, IF hasBody THEN body ELSE EmptyMap, <<>>)

\* Executor.Execute
Executor_Execute(inv, cmdDef, env) ==
    LET load == <<Eff("config.Load")>>
        tok == getAuthToken(env)
        auth == load \o tok.log
        cid == IF inv.cid = <<>> THEN GetDefaultClusterID(env) ELSE inv.cid
        input == Executor_collectInput(inv, cmdDef)
        ep == Executor_buildEndpoint(cmdDef.Endpoint, inv.args, cmdDef, env, cid)
        sent == auth \o <<Executor_doRequest(cmdDef.Method, ep.url, input.body)>>
    IN  IF env.cfgErr THEN Result(Msg("failed to load config: ", 0, <<>>), <<>>, load)
        ELSE IF tok.err
             THEN Result(Msg("authentication required: run 'runos login' first", 0, <<>>), <<>>, auth)
        ELSE IF input.err # NoErr
             THEN Result(Msg("failed to collect input: ", 0, <<>>), <<>>, auth)
        ELSE IF ep.err # NoErr THEN Result(ep.err, <<>>, auth)
        ELSE IF env.httpErr = "transport"
             THEN Result(Msg("request failed: ", 0, <<>>), <<>>, sent)
        ELSE IF env.httpErr = "read"
             THEN Result(Msg("failed to read response: ", 0, <<>>), <<>>, sent)
        ELSE IF isAPIError(env.StatusCode)
             THEN Result(Msg("API error (%d): %s", env.StatusCode, s_respBody), <<>>, sent)
        ELSE Result(NoErr, s_respBody, sent \o <<Eff("formatter.Format")>>)

----------------------------------------------------------------------------
(* package mcp: CommandExecutor (the tool dispatch's request building) *)

RECURSIVE substituteNamed(_, _, _, _)
substituteNamed(fields, i, args, result) ==
    IF i > Len(fields) THEN result
    ELSE IF fields[i].Positional /\ Has(args, fields[i].Name)
         THEN LET valStr == SprintfV(Get(args, fields[i].Name))
                  r1 == ReplaceAll(result, s_lbrace \o fields[i].Name \o s_rbrace, valStr)
                  r2 == ReplaceAll(r1, s_colon \o fields[i].Name, valStr)
              IN  substituteNamed(fields, i + 1, args, r2)
         ELSE substituteNamed(fields, i + 1, args, result)

\* CommandExecutor.buildEndpoint: loads the configuration a second time
CommandExecutor_buildEndpoint(endpoint, args, cmdDef, env) ==
    IF env.cfgErr2
    THEN [err |-> Msg("failed to load config: ", 0, <<>>), url |-> <<>>]
    ELSE IF Contains(endpoint, s_aid) /\ env.AccountID = <<>>
    THEN [err |-> Msg("account ID not set: run 'runos login' first", 0, <<>>), url |-> <<>>]
    ELSE LET r1 == IF Contains(endpoint, s_aid)
                   THEN ReplaceAll(endpoint, s_aid, env.AccountID) ELSE endpoint
             cid == GetDefaultClusterID(env)
         IN  IF Contains(r1, s_cid) /\ cid = <<>>
             THEN [err |-> Msg("cluster ID required: set default with 'runos config set cid <cluster-id>'", 0, <<>>),
                   url |-> <<>>]
             ELSE LET r2 == IF Contains(r1, s_cid) THEN ReplaceAll(r1, s_cid, cid) ELSE r1
                      r3 == IF cmdDef.HasInput
                            THEN substituteNamed(cmdDef.Fields, 1, args, r2) ELSE r2
                  IN  [err |-> NoErr, url |-> s_baseURL \o r3]

RECURSIVE bodyFields(_, _, _, _)
bodyFields(fields, i, args, body) ==
    IF i > Len(fields) THEN body
    ELSE bodyFields(fields, i + 1, args,
            IF fields[i].Positional THEN body
            ELSE IF Has(args, fields[i].Name)
                 THEN Put(body, fields[i].Name, Get(args, fields[i].Name))
            ELSE IF fields[i].Default # JNull
                 THEN Put(body, fields[i].Name, fields[i].Default)
            ELSE body)

RECURSIVE bodyFlags(_, _, _, _)
bodyFlags(flags, i, args, body) ==
    IF i > Len(flags) THEN body
    ELSE bodyFlags(flags, i + 1, args,
            IF Has(args, flags[i].Name)
            THEN Put(body, flags[i].Name, Get(args, flags[i].Name))
            ELSE Put(body, flags[i].Name, JBool(flags[i].Default)))

\* CommandExecutor.buildBody; a nil map and an empty map both have len 0
CommandExecutor_buildBody(args, cmdDef) ==
    IF cmdDef.Method \notin BodyMethods THEN EmptyMap
    ELSE IF ~cmdDef.HasInput THEN EmptyMap
    ELSE bodyFlags(cmdDef.Flags, 1, args,
            bodyFields(cmdDef.Fields, 1, args, EmptyMap))

\* CommandExecutor.doRequestWithCID: the request put on the wire
CommandExecutor_doRequestWithCID(method, url, body, cid) ==
    HttpEff(method, url, body # EmptyMap, body, cid)

\* CommandExecutor.doRequest
CommandExecutor_doRequest(method, url, body) ==
    CommandExecutor_doRequestWithCID(method, url, body, <<>>)

\* the reverse tool-name mapping of CommandExecutor.Execute
cmdPath(toolName) == ReplaceAll(toolName, s_underscore, s_slash)

\* the index of the first command whose path is the converted tool name,
\* 0 when cmdDef stays nil
findCommand(manifest, toolName) ==
    IF \E i \in 1..Len(manifest) : manifest[i].Command = cmdPath(toolName)
    THEN CHOOSE i \in 1..Len(manifest) :
            /\ manifest[i].Command = cmdPath(toolName)
            /\ \A j \in 1..(i - 1) : manifest[j].Command # cmdPath(toolName)
    ELSE 0

\* a variant that looks the command up after loading the configuration and
\* refreshing the token
unknownCommand_afterAuth(toolName, env) ==
    Result(Msg("unknown command: %s", 0, toolName), <<>>,
           <<Eff("config.Load")>> \o getAuthToken(env).log)

\* CommandExecutor.Execute when no command has the converted name: the
\* lookup comes first, nothing has been loaded or called yet
unknownCommand(toolName, env) ==
    Result(Msg("unknown command: %s", 0, toolName), <<>>, <<>>)

\* CommandExecutor.Execute
CommandExecutor_Execute(manifest, toolName, args, env) ==
    LET idx == findCommand(manifest, toolName)
        cmdDef == manifest[idx]
        load == <<Eff("config.Load")>>
        tok == getAuthToken(env)
        auth == load \o tok.log
        ep == CommandExecutor_buildEndpoint(cmdDef.Endpoint, args, cmdDef, env)
        built == auth \o <<Eff("config.Load")>>
        body == CommandExecutor_buildBody(args, cmdDef)
        sent == built \o <<CommandExecutor_doRequest(cmdDef.Method, ep.url, body)>>
    IN  IF idx = 0 THEN unknownCommand(toolName, env)
        ELSE IF env.cfgErr THEN Result(Msg("failed to load config: ", 0, <<>>), <<>>, load)
        ELSE IF tok.err
             THEN Result(Msg("authentication required: run 'runos login' first", 0, <<>>), <<>>, auth)
        ELSE IF ep.err # NoErr THEN Result(ep.err, <<>>, built)
        ELSE IF env.httpErr = "transport"
             THEN Result(Msg("request failed: ", 0, <<>>), <<>>, sent)
        ELSE IF env.httpErr = "read"
             THEN Result(Msg("failed to read response: ", 0, <<>>), <<>>, sent)
        ELSE IF isAPIError(env.StatusCode)
             THEN Result(Msg("API error (%d): %s", env.StatusCode, s_respBody), <<>>, sent)
        ELSE Result(NoErr, s_respBody, sent)

\* the text of ExecuteRaw: the marshalled {"status", "status_text", "body"},
\* held as the status digits, a space and the body
rawText(status, respBody) == Itoa(status) \o <<" ">> \o respBody

\* CommandExecutor.ExecuteRaw: the status is part of the text, whatever it is
CommandExecutor_ExecuteRaw(method, endpoint, body, cid, env) ==
    LET load == <<Eff("config.Load")>>
        tok == getAuthToken(env)
        auth == load \o tok.log
        sent == auth \o <<CommandExecutor_doRequestWithCID(method, s_baseURL \o endpoint, body, cid)>>
    IN  IF env.cfgErr THEN Result(Msg("failed to load config: ", 0, <<>>), <<>>, load)
        ELSE IF tok.err
             THEN Result(Msg("authentication required: run 'runos login' first", 0, <<>>), <<>>, auth)
        ELSE IF env.httpErr = "transport"
             THEN Result(Msg("request failed: ", 0, <<>>), <<>>, sent)
        ELSE IF env.httpErr = "read"
             THEN Result(Msg("failed to read response: ", 0, <<>>), <<>>, sent)
        ELSE Result(NoErr, rawText(env.StatusCode, s_respBody), sent)

----------------------------------------------------------------------------
(* package dynacmd: Builder.buildLeafCommand (the leaf's flags and RunE) *)

\* a flag of a cobra command: its name and the type of its value
FlagDef(name, type) == [Name |-> name, Type |-> type]

\* the switch of addFieldFlags: the flag type of a field type, "" for a
\* type without a case
flagType(t) ==
    IF t = "string" THEN "string"
    ELSE IF t = "integer" THEN "int"
    ELSE IF t = "array" THEN "stringSlice"
    ELSE ""

\* addFieldFlags: positional fields and fields of a type without a case get
\* no flag
RECURSIVE addFieldFlags(_, _)
addFieldFlags(fields, i) ==
    IF i > Len(fields) THEN {}
    ELSE (IF fields[i].Positional \/ flagType(fields[i].Type) = "" THEN {}
          ELSE {FlagDef(fields[i].Name, flagType(fields[i].Type))})
         \cup addFieldFlags(fields, i + 1)

\* addBoolFlags
addBoolFlags(flags) == {FlagDef(flags[i].Name, "bool") : i \in 1..Len(flags)}

fieldFlagNames(fields, i) == {f.Name : f \in addFieldFlags(fields, i)}

\* the flags buildLeafCommand defines from the input schema
\* (addFieldFlags, addBoolFlags)
inputFlagNames(cmdDef) ==
    IF cmdDef.HasInput
    THEN fieldFlagNames(cmdDef.Fields, 1)
         \cup {cmdDef.Flags[i].Name : i \in 1..Len(cmdDef.Flags)}
    ELSE {}

\* a variant that defines -f for every command with an input schema
hasFileFlag_anyInput(cmdDef) == cmdDef.HasInput

\* -f is defined for commands with input fields
hasFileFlag(cmdDef) == cmdDef.HasInput /\ Len(cmdDef.Fields) > 0

\* --cid is defined when the endpoint uses :cid
hasCidFlag(cmdDef) == Contains(cmdDef.Endpoint, s_cid)

\* cobra rejects a flag the leaf does not define, before RunE
unknownFlag(inv, cmdDef) ==
    \/ Keys(inv.flags) \ inputFlagNames(cmdDef) # {}
    \/ inv.file.given /\ ~hasFileFlag(cmdDef)
    \/ inv.cid # <<>> /\ ~hasCidFlag(cmdDef)

\* cmd.MarkFlagRequired: cobra rejects the invocation before RunE when a
\* required flag was not set
missingRequiredFlag(inv, cmdDef) ==
    /\ cmdDef.HasInput
    /\ \E i \in 1..Len(cmdDef.Fields) :
          /\ ~cmdDef.Fields[i].Positional
          /\ flagType(cmdDef.Fields[i].Type) # ""
          /\ cmdDef.Fields[i].Required
          /\ ~Has(inv.flags, cmdDef.Fields[i].Name)

\* the first required positional field without an argument, 0 if none
RECURSIVE missingPositional(_, _, _, _)
missingPositional(fields, i, argIndex, nargs) ==
    IF i > Len(fields) THEN 0
    ELSE IF fields[i].Positional
         THEN IF argIndex >= nargs /\ fields[i].Required THEN i
              ELSE missingPositional(fields, i + 1, argIndex + 1, nargs)
         ELSE missingPositional(fields, i + 1, argIndex, nargs)

\* the leaf's RunE
leafRunE(inv, cmdDef, env) ==
    LET m == IF cmdDef.HasInput
             THEN missingPositional(cmdDef.Fields, 1, 0, Len(inv.args)) ELSE 0
    IN  IF m # 0
        THEN IF Len(cmdDef.Fields[m].Enum) > 0
             THEN Result(NoErr, <<>>, <<Eff("showEnumOptions")>>)
             ELSE Result(Msg("missing required argument: %s", 0, cmdDef.Fields[m].Name), <<>>, <<>>)
        ELSE Executor_Execute(inv, cmdDef, env)

\* Builder.buildLeafCommand: the flags of the leaf
Builder_buildLeafCommand(cmdDef) ==
    (IF cmdDef.HasInput
     THEN addFieldFlags(cmdDef.Fields, 1) \cup addBoolFlags(cmdDef.Flags) ELSE {})
    \cup (IF hasFileFlag(cmdDef) THEN {FlagDef(s_file, "string")} ELSE {})
    \cup (IF hasCidFlag(cmdDef) THEN {FlagDef(s_cidArg, "string")} ELSE {})
    \cup {FlagDef(s_json, "bool")}
    \cup (IF cmdDef.ReturnsJob THEN {FlagDef(s_wait, "bool")} ELSE {})

\* one invocation of a leaf command
leafCommand(inv, cmdDef, env) ==
    IF unknownFlag(inv, cmdDef)
    THEN Result(Msg("unknown flag: ", 0, <<>>), <<>>, <<>>)
    ELSE IF missingRequiredFlag(inv, cmdDef)
    THEN Result(Msg("required flag(s) not set", 0, <<>>), <<>>, <<>>)
    ELSE leafRunE(inv, cmdDef, env)

----------------------------------------------------------------------------
(* package mcp: Server *)

ParseError == -32700
MethodNotFound == -32601
InvalidParams == -32602

\* a JSON-RPC id on the wire: absent, or a JSON value
IdAbsent == [k |-> "absent", v |-> <<>>]
\* a nil interface{}
GoNil == [k |-> "nil", v |-> <<>>]

\* one line of the input, TrimSpace'd: blank, not decodable into a Request,
\* or a request with its id, method and params as written by the client
Line(kind, id, method, params) ==
    [kind |-> kind, id |-> id, method |-> method, params |-> params]
\* params: "absent", "invalid" (not decodable into CallToolParams),
\* "null", or an object with name and arguments
Params(form, name, args) == [form |-> form, name |-> name, args |-> args]
NoParams == Params("absent", <<>>, {})
BlankLine == Line("blank", IdAbsent, "", NoParams)
MalformedLine == Line("malformed", IdAbsent, "", NoParams)

\* json.Unmarshal of the id into interface{}: null and absent both leave nil
unmarshalID(id) == IF id = IdAbsent \/ id = JNull THEN GoNil ELSE id

\* json.Unmarshal(line, &req)
Request(line) ==
    [JSONRPC |-> "2.0", ID |-> unmarshalID(line.id), Method |-> line.method,
     Params |-> line.params]

\* the result member: nil, InitializeResult, ToolsListResult,
\* CallToolResult or the empty map of ping
ResultNil == [t |-> "nil", tools |-> <<>>, content |-> <<>>, isError |-> FALSE]
InitializeResult == [t |-> "initialize", tools |-> <<>>, content |-> <<>>, isError |-> FALSE]
ToolsListResult(tools) == [t |-> "tools", tools |-> tools, content |-> <<>>, isError |-> FALSE]
CallToolResult(content, isError) ==
    [t |-> "call", tools |-> <<>>, content |-> content, isError |-> isError]
EmptyResult == [t |-> "empty", tools |-> <<>>, content |-> <<>>, isError |-> FALSE]
ContentBlock(type, text) == [Type |-> type, Text |-> text]

ErrorNil == [nil |-> TRUE, Code |-> 0, Message |-> ""]
Error(code, message) == [nil |-> FALSE, Code |-> code, Message |-> message]

Response(id, result, error) ==
    [JSONRPC |-> "2.0", ID |-> id, Result |-> result, Error |-> error]
NoResponse == Response(GoNil, ResultNil, ErrorNil)

\* json.Marshal(resp): the members on the wire; id, result and error are
\* omitempty
marshal(resp) ==
    [jsonrpc |-> resp.JSONRPC,
     id |-> IF resp.ID = GoNil THEN IdAbsent ELSE resp.ID,
     hasResult |-> resp.Result # ResultNil, result |-> resp.Result,
     hasError |-> ~resp.Error.nil, error |-> resp.Error]

\* Property: enum and default are omitempty (<<>> and JNull when unset)
Property(type, enum, default) == [Type |-> type, Enum |-> enum, Default |-> default]
InputSchema(properties, required) ==
    [Type |-> "object", Properties |-> properties, Required |-> required]
Tool(name, schema) == [Name |-> name, InputSchema |-> schema]

\* a variant that passes the manifest's type names through
mapType_asDeclared(t) == t

\* Server.mapType
Server_mapType(t) ==
    IF t = "integer" THEN "number"
    ELSE IF t = "array" THEN "array"
    ELSE "string"

RECURSIVE fieldProperties(_, _, _)
fieldProperties(fields, i, props) ==
    IF i > Len(fields) THEN props
    ELSE fieldProperties(fields, i + 1,
            Put(props, fields[i].Name,
                Property(Server_mapType(fields[i].Type), fields[i].Enum,
                         fields[i].Default)))

RECURSIVE flagProperties(_, _, _)
flagProperties(flags, i, props) ==
    IF i > Len(flags) THEN props
    ELSE flagProperties(flags, i + 1,
            Put(props, flags[i].Name,
                Property("boolean", <<>>, JBool(flags[i].Default))))

\* the names of the required fields, in declaration order
RECURSIVE requiredFields(_, _)
requiredFields(fields, i) ==
    IF i > Len(fields) THEN <<>>
    ELSE (IF fields[i].Required THEN <<fields[i].Name>> ELSE <<>>)
         \o requiredFields(fields, i + 1)

\* Server.buildTools: the tool of one manifest command
commandTool(cmd) ==
    Tool(ReplaceAll(cmd.Command, s_slash, s_underscore),
         IF cmd.HasInput
         THEN InputSchema(flagProperties(cmd.Flags, 1,
                              fieldProperties(cmd.Fields, 1, EmptyMap)),
                          requiredFields(cmd.Fields, 1))
         ELSE InputSchema(EmptyMap, <<>>))

\* Server.buildTools: the built-in tool
apiRequestTool ==
    Tool(s_api_request,
         InputSchema({<<s_method, Property("string", <<s_GET, s_POST, s_PUT, s_PATCH, s_DELETE>>, JNull)>>,
                      <<s_endpoint, Property("string", <<>>, JNull)>>,
                      <<s_body, Property("object", <<>>, JNull)>>,
                      <<s_cidArg, Property("string", <<>>, JNull)>>},
                     <<s_method, s_endpoint, s_cidArg>>))

\* a variant that lists api_request after the manifest's tools
buildTools_builtinLast(manifest) ==
    [i \in 1..Len(manifest) |-> commandTool(manifest[i])] \o <<apiRequestTool>>

\* Server.buildTools: api_request, then one tool per manifest command
Server_buildTools(manifest) ==
    <<apiRequestTool>> \o [i \in 1..Len(manifest) |-> commandTool(manifest[i])]

\* Server.handleAPIRequest
Server_handleAPIRequest(args, env) ==
    IF ~IsString(args, s_method) \/ Get(args, s_method).v = <<>>
    THEN Result(Msg("method is required", 0, <<>>), <<>>, <<>>)
    ELSE IF ~IsString(args, s_endpoint) \/ Get(args, s_endpoint).v = <<>>
    THEN Result(Msg("endpoint is required", 0, <<>>), <<>>, <<>>)
    ELSE LET cid == IF IsString(args, s_cidArg) THEN Get(args, s_cidArg).v ELSE <<>>
             body == IF Has(args, s_body) /\ Get(args, s_body).k = "object"
                     THEN Get(args, s_body).v ELSE EmptyMap
         IN  CommandExecutor_ExecuteRaw(Get(args, s_method).v,
                Get(args, s_endpoint).v, body, cid, env)

\* the executor's answer to a tools/call with decodable params
toolsCallExec(req, manifest, env) ==
    LET name == IF req.Params.form = "null" THEN <<>> ELSE req.Params.name
        args == IF req.Params.form = "null" THEN EmptyMap ELSE req.Params.args
    IN  IF name = s_api_request THEN Server_handleAPIRequest(args, env)
        ELSE CommandExecutor_Execute(manifest, name, args, env)

NoExec == Result(NoErr, <<>>, <<>>)

\* a variant that reports undecodable params as a failed tool execution
handleToolsCall_invalidAsToolError(req, exec) ==
    IF req.Params.form \in {"absent", "invalid"} \/ exec.err # NoErr
    THEN Response(req.ID,
            CallToolResult(<<ContentBlock("text", exec.err)>>, TRUE), ErrorNil)
    ELSE Response(req.ID,
            CallToolResult(<<ContentBlock("text", Msg("", 0, exec.text))>>, FALSE),
            ErrorNil)

\* a variant that reports an execution failure as a JSON-RPC error object
handleToolsCall_protocolError(req, exec) ==
    IF req.Params.form \in {"absent", "invalid"}
    THEN Response(req.ID, ResultNil, Error(InvalidParams, "Invalid params"))
    ELSE IF exec.err # NoErr
    THEN Response(req.ID, ResultNil, Error(InvalidParams, "Tool execution failed"))
    ELSE Response(req.ID,
            CallToolResult(<<ContentBlock("text", Msg("", 0, exec.text))>>, FALSE),
            ErrorNil)

\* Server.handleToolsCall, given the executor's answer
Server_handleToolsCall(req, exec) ==
    IF req.Params.form \in {"absent", "invalid"}
    THEN Response(req.ID, ResultNil, Error(InvalidParams, "Invalid params"))
    ELSE IF exec.err # NoErr
    THEN Response(req.ID,
            CallToolResult(<<ContentBlock("text", exec.err)>>, TRUE), ErrorNil)
    ELSE Response(req.ID,
            CallToolResult(<<ContentBlock("text", Msg("", 0, exec.text))>>, FALSE),
            ErrorNil)

\* a variant that answers an unknown method like ping
handleRequest_unknownAsPing(req, manifest, exec) ==
    CASE req.Method = "initialize" -> Response(req.ID, InitializeResult, ErrorNil)
      [] req.Method = "initialized" -> NoResponse
      [] req.Method = "tools/list" ->
            Response(req.ID, ToolsListResult(Server_buildTools(manifest)), ErrorNil)
      [] req.Method = "tools/call" -> Server_handleToolsCall(req, exec)
      [] OTHER -> Response(req.ID, EmptyResult, ErrorNil)

\* Server.handleRequest: the response, nil for the initialized notification
Server_handleRequest(req, manifest, exec) ==
    CASE req.Method = "initialize" -> Response(req.ID, InitializeResult, ErrorNil)
      [] req.Method = "initialized" -> NoResponse
      [] req.Method = "tools/list" ->
            Response(req.ID, ToolsListResult(Server_buildTools(manifest)), ErrorNil)
      [] req.Method = "tools/call" -> Server_handleToolsCall(req, exec)
      [] req.Method = "ping" -> Response(req.ID, EmptyResult, ErrorNil)
      [] OTHER -> Response(req.ID, ResultNil, Error(MethodNotFound, "Method not found"))

\* Server.sendError(nil, -32700, "Parse error", ...)
parseErrorResponse == Response(GoNil, ResultNil, Error(ParseError, "Parse error"))

----------------------------------------------------------------------------
(* package cache: Manager on cache.json *)

\* the ticks the clock runs through
MaxTime == 3

\* Entry
Entry(value, expiresAt) == [Value |-> value, ExpiresAt |-> expiresAt]

\* the cache file: missing, or the Cache it holds (Entries as a map); reads
\* and writes of the file succeed
NoCacheFile == [exists |-> FALSE, Entries |-> EmptyMap]
CacheFile(entries) == [exists |-> TRUE, Entries |-> entries]

\* Manager.load: a missing file is an empty cache
Manager_load(f) == IF f.exists THEN f.Entries ELSE EmptyMap

\* Manager.save
Manager_save(c) == CacheFile(c)

\* a variant that counts an entry as expired from its expiry time on
expired_fromExpiry(t, entry) == t >= entry.ExpiresAt

\* time.Now().After(entry.ExpiresAt)
expired(t, entry) == t > entry.ExpiresAt

\* Manager.Get at time t: the value, whether it is valid, and the file after
\* the call (an expired entry is deleted and the cache saved)
Manager_Get(f, key, t) ==
    LET c == Manager_load(f)
    IN  IF ~Has(c, key) THEN [value |-> "", ok |-> FALSE, file |-> f]
        ELSE IF expired(t, Get(c, key))
        THEN [value |-> "", ok |-> FALSE,
              file |-> Manager_save({p \in c : p[1] # key})]
        ELSE [value |-> Get(c, key).Value, ok |-> TRUE, file |-> f]

\* Manager.Set at time t: the file after the call
Manager_Set(f, key, value, ttl, t) ==
    Manager_save(Put(Manager_load(f), key, Entry(value, t + ttl)))

\* Manager.Delete: the file after the call
Manager_Delete(f, key) == Manager_save({p \in Manager_load(f) : p[1] # key})

\* Manager.IsExpired
Manager_IsExpired(f, key, t) ==
    [expired |-> ~Manager_Get(f, key, t).ok, file |-> Manager_Get(f, key, t).file]

versionCheckCacheKey == "manifest_version_check"
\* versionCheckTTL (one hour), in ticks
versionCheckTTL == 2

\* the keys, values and lifetimes the callers of the cache use
CacheKeys == {versionCheckCacheKey, "k"}
CacheValues == {"v1", "v2"}
CacheTTLs == {0, 1, versionCheckTTL}

NeverSet == [set |-> FALSE, Value |-> "", ExpiresAt |-> 0]
NoGet == [ran |-> FALSE, key |-> "", at |-> 0, value |-> "", ok |-> FALSE,
          latest |-> NeverSet, before |-> EmptyMap, after |-> EmptyMap]

----------------------------------------------------------------------------
(* package manifest: Loader *)

ManifestVersions == {"v1", "v2"}

\* what Load returns and leaves behind: the manifest returned (its version),
\* the error, whether the server was contacted, the cache file and the local
\* manifest after the call, and whether the call saw a remote version other
\* than the local one and then failed to fetch or store the manifest
LoadResult(m, err, contacted, f, local, failed) ==
    [manifest |-> m, err |-> err, contacted |-> contacted, file |-> f,
     local |-> local, failed |-> failed]

\* Loader.Load at time t: local is the version in manifest.yaml ("" when
\* loadLocal fails), rem the version the server publishes, the flags tell
\* whether fetchVersion, fetchManifest and saveLocal succeed
Loader_Load(local, f, t, rem, verOK, manOK, saveOK) ==
    LET chk == IF local # "" THEN Manager_IsExpired(f, versionCheckCacheKey, t)
               ELSE [expired |-> TRUE, file |-> f]
        f2 == Manager_Set(chk.file, versionCheckCacheKey, rem, versionCheckTTL, t)
    IN  IF local # "" /\ ~chk.expired
        THEN LoadResult(local, FALSE, FALSE, chk.file, local, FALSE)
        ELSE IF ~verOK
        THEN LoadResult(local, local = "", TRUE, chk.file, local, FALSE)
        ELSE IF local # "" /\ local = rem
        THEN LoadResult(local, FALSE, TRUE, f2, local, FALSE)
        ELSE IF ~manOK
        THEN LoadResult(local, local = "", TRUE, f2, local, TRUE)
        ELSE LoadResult(rem, FALSE, TRUE, f2, IF saveOK THEN rem ELSE local, ~saveOK)

\* the latest Load, with the state it started from: whether an earlier Load
\* had seen a newer version without getting it stored (owed), and whether
\* the version-check entry was unexpired
NotLoaded ==
    [ran |-> FALSE, manifest |-> "", err |-> FALSE, contacted |-> FALSE,
     owed |-> FALSE, owedBefore |-> FALSE, freshBefore |-> FALSE]

----------------------------------------------------------------------------
(* package cmd: runLogin *)

NoCredentials == [AccountID |-> "", Firebase |-> FALSE, RefreshToken |-> ""]

\* the credentials a Config holds; Firebase tells whether the settings are present
Credentials(account, firebase, refresh) ==
    [AccountID |-> account, Firebase |-> firebase, RefreshToken |-> refresh]

\* the credentials of an earlier login, and those a successful poll and
\* exchange hand out
OldCredentials == Credentials("acct1", TRUE, "rt1")
NewCredentials == Credentials("acct2", TRUE, "rt2")

\* pollTimeout / pollInterval: the number of poll intervals before the deadline
MaxPolls == 3

\* what PollDeviceAuth answers
PollResponse(success, firebase, error) ==
    [Success |-> success, Firebase |-> firebase, Error |-> error]

PollErrors == {"authorization_pending", "expired", "used", "invalid", "denied"}

PollResponses ==
    {PollResponse(TRUE, fb, "") : fb \in BOOLEAN}
        \cup {PollResponse(FALSE, FALSE, e) : e \in PollErrors}

\* runLogin's position: pc, the poll intervals elapsed since the deadline was
\* set, the answers of the polls made so far (with the time of each and
\* whether the call returned), whether ExchangeCustomToken succeeded, and the
\* error returned
LoginNotStarted ==
    [pc |-> "idle", elapsed |-> 0, answers |-> <<>>, exchanged |-> FALSE, err |-> ""]

LoginDone(l, err) == [l EXCEPT !.pc = "done", !.err = err]

\* Config.Save of the credentials c over the stored ones: a failed
\* os.WriteFile may already have truncated the file
Config_Save(st, c, saveOK, truncated) ==
    IF saveOK THEN c ELSE IF truncated THEN NoCredentials ELSE st

\* a variant that stores the credentials before exchanging the token
runLogin_onResponse_saveFirst(l, st, answer, exchangeOK, saveOK, truncated) ==
    IF answer.Success
    THEN IF ~answer.Firebase
         THEN [login |-> LoginDone(l, "missing firebase config in response"),
               stored |-> st]
         ELSE IF ~saveOK
         THEN [login |-> LoginDone(l, "failed to save credentials"),
               stored |-> Config_Save(st, NewCredentials, FALSE, truncated)]
         ELSE IF ~exchangeOK
         THEN [login |-> LoginDone(l, "failed to exchange token"),
               stored |-> Config_Save(st, NewCredentials, TRUE, truncated)]
         ELSE [login |-> LoginDone([l EXCEPT !.exchanged = TRUE], ""),
               stored |-> Config_Save(st, NewCredentials, TRUE, truncated)]
    ELSE IF answer.Error = "authorization_pending"
    THEN [login |-> [l EXCEPT !.elapsed = @ + 1], stored |-> st]
    ELSE [login |-> LoginDone(l, answer.Error), stored |-> st]

\* the body of runLogin's loop after PollDeviceAuth returned answer
runLogin_onResponse(l, st, answer, exchangeOK, saveOK, truncated) ==
    IF answer.Success
    THEN IF ~answer.Firebase
         THEN [login |-> LoginDone(l, "missing firebase config in response"),
               stored |-> st]
         ELSE IF ~exchangeOK
         THEN [login |-> LoginDone(l, "failed to exchange token"), stored |-> st]
         ELSE IF ~saveOK
         THEN [login |-> LoginDone([l EXCEPT !.exchanged = TRUE],
                                   "failed to save credentials"),
               stored |-> Config_Save(st, NewCredentials, FALSE, truncated)]
         ELSE [login |-> LoginDone([l EXCEPT !.exchanged = TRUE], ""),
               stored |-> Config_Save(st, NewCredentials, TRUE, truncated)]
    ELSE IF answer.Error = "authorization_pending"
    THEN [login |-> [l EXCEPT !.elapsed = @ + 1], stored |-> st]
    ELSE IF answer.Error = "expired"
    THEN [login |-> LoginDone(l, "authorization expired"), stored |-> st]
    ELSE IF answer.Error = "used"
    THEN [login |-> LoginDone(l, "token already used"), stored |-> st]
    ELSE IF answer.Error = "invalid"
    THEN [login |-> LoginDone(l, "invalid request"), stored |-> st]
    ELSE [login |-> LoginDone(l, "authorization failed"), stored |-> st]

----------------------------------------------------------------------------
(* Inputs *)

\* the lines a client may write before it closes the stream
MaxLines == 2

\* the operations of a manifest given to BuildCommands
MaxTreeOps == 3

\* the lines a client may write in the runs checked for termination
MaxLiveLines == 1

envOK == Environment(FALSE, FALSE, TRUE, TRUE, TRUE, s_A, <<>>, s_c1, "", 200)

\* the answers of the environment to one tools/call of the server: all is
\* well, or one thing fails
ServerEnvs ==
    {envOK,
     [envOK EXCEPT !.StatusCode = 400],
     [envOK EXCEPT !.httpErr = "transport", !.StatusCode = 0],
     [envOK EXCEPT !.httpErr = "read"],
     [envOK EXCEPT !.cfgErr = TRUE],
     [envOK EXCEPT !.cfgErr2 = TRUE],
     [envOK EXCEPT !.RefreshToken = FALSE],
     [envOK EXCEPT !.refreshOK = FALSE],
     [envOK EXCEPT !.AccountID = <<>>],
     [envOK EXCEPT !.DefaultClusterID = <<>>]}

\* the answers of the environment to one invocation of a leaf and of its tool
BuildEnvs ==
    {Environment(c[1], c[2], t[1], t[2], t[3], acc, cl[1], cl[2], h[1], h[2]) :
        c \in {<<FALSE, FALSE>>, <<TRUE, FALSE>>, <<FALSE, TRUE>>},
        t \in {<<TRUE, TRUE, TRUE>>, <<TRUE, TRUE, FALSE>>, <<FALSE, TRUE, TRUE>>},
        acc \in {<<>>, s_A},
        cl \in {<<<<>>, <<>>>>, <<<<>>, s_c1>>, <<s_c1, <<>>>>},
        h \in {<<"", 200>>, <<"", 400>>, <<"transport", 0>>}}

Manifests == {<<opValkey, opList>>, <<opTag, opUser>>, <<>>}
BuildManifest == <<opValkey, opList, opTag, opUser, opBoth, opNs, opOwn, opDel, opKind>>
\* the operations invoked through both adapters
BuildOps == {opValkey, opList, opTag, opBoth, opNs, opOwn, opDel, opKind}

\* the value a caller supplies for each input name, when it supplies one
Candidates ==
    {<<s_name, JStr(s_myredis)>>,
     <<s_tags, JArr(<<JStr(s_envprod), JStr(s_debug)>>)>>,
     <<s_tags, JArr(<<JStr(s_k_v_w)>>)>>,
     <<s_namespace, JStr(s_prod)>>,
     <<s_owner, JStr(s_A)>>,
     <<s_kind, JStr(s_prod)>>,
     <<s_x, JNum(s_3)>>,
     <<s_force, JBool(TRUE)>>}

declaredNames(cmdDef) ==
    IF cmdDef.HasInput
    THEN {cmdDef.Fields[i].Name : i \in 1..Len(cmdDef.Fields)}
         \cup {cmdDef.Flags[i].Name : i \in 1..Len(cmdDef.Flags)}
    ELSE {}

SuppliedSets(cmdDef) ==
    {sup \in SUBSET {p \in Candidates : p[1] \in declaredNames(cmdDef)} :
        \A p, q \in sup : p[1] = q[1] => p = q}

Files == {NoFile, File({<<s_x, JNum(s_2)>>}), File({<<s_name, JStr(s_debug)>>})}

\* the positional arguments of a CLI call that supplies these values: the
\* values of the positional fields in declaration order, up to the first
\* one not supplied
RECURSIVE positionalArgs(_, _, _)
positionalArgs(fields, i, supplied) ==
    IF i > Len(fields) THEN <<>>
    ELSE IF ~fields[i].Positional THEN positionalArgs(fields, i + 1, supplied)
    ELSE IF Has(supplied, fields[i].Name)
         THEN <<SprintfV(Get(supplied, fields[i].Name))>>
              \o positionalArgs(fields, i + 1, supplied)
         ELSE <<>>

positionalNames(cmdDef) ==
    IF cmdDef.HasInput
    THEN {cmdDef.Fields[i].Name : i \in {j \in 1..Len(cmdDef.Fields) : cmdDef.Fields[j].Positional}}
    ELSE {}

\* the CLI call that supplies these values
CliInvocation(cmdDef, sup, f, cidF) ==
    Invocation(IF cmdDef.HasInput THEN positionalArgs(cmdDef.Fields, 1, sup) ELSE <<>>,
               {p \in sup : p[1] \notin positionalNames(cmdDef)}, f, cidF)

\* the CLI can pass these values: the supplied positional fields are the
\* first ones declared
Expressible(cmdDef, sup) ==
    Len(CliInvocation(cmdDef, sup, NoFile, <<>>).args)
        = Cardinality({p \in sup : p[1] \in positionalNames(cmdDef)})

ToolName(cmdDef) == ReplaceAll(cmdDef.Command, s_slash, s_underscore)

RawCall ==
    {<<s_method, JStr(s_POST)>>, <<s_endpoint, JStr(s_rawEndpoint)>>,
     <<s_cidArg, JStr(s_c1)>>, <<s_body, JObj({<<s_x, JNum(s_1)>>})>>}

RawArgs ==
    {RawCall,
     {<<s_method, JStr(s_GET)>>, <<s_endpoint, JStr(s_rawEndpoint)>>},
     {<<s_endpoint, JStr(s_rawEndpoint)>>, <<s_cidArg, JStr(s_c1)>>},
     {<<s_method, JStr(s_POST)>>, <<s_endpoint, JStr(<<>>)>>, <<s_cidArg, JStr(s_c1)>>}}

ToolArgs ==
    {{}, {<<s_name, JStr(s_myredis)>>},
     {<<s_name, JStr(s_myredis)>>, <<s_x, JNum(s_3)>>}}

CallParams(m) ==
    {Params("absent", <<>>, {}), Params("invalid", <<>>, {}), Params("null", <<>>, {})}
    \cup {Params("object", s_api_request, a) : a \in RawArgs}
    \cup {Params("object", n, a) :
            n \in {ToolName(m[i]) : i \in 1..Len(m)} \cup {s_nope}, a \in ToolArgs}

Ids == {IdAbsent, JNull, JNum(s_1)}
Methods == {"initialize", "initialized", "tools/list", "ping", "resources/list"}

\* the lines a client may send to a server with manifest m
Lines(m) ==
    {BlankLine, MalformedLine}
    \cup {Line("request", id, meth, NoParams) : id \in Ids, meth \in Methods}
    \cup {Line("request", id, "tools/call", p) : id \in Ids, p \in CallParams(m)}

----------------------------------------------------------------------------
(* State *)

VARIABLES
    manifest,   \* Server.manifest, immutable
    sent,       \* lines the client has written to stdin
    stdin,      \* "open"; "eof": closed; "tail": closed after an
                \* unterminated fragment; "err": reads fail
    pc,         \* where Server.Run is: "read", "handle", "call" (blocked in
                \* an executor's network call), "write", "stopped"
    nread,      \* lines ReadString has returned
    cur,        \* the line being processed
    exec,       \* the executor's (string, error) and calls for cur
    backend,    \* the backend's answer to the request made for cur
    resp,       \* the response being sent for cur (cur, exec, backend
                \* and resp are locals of one loop iteration)
    stdout,     \* the responses written: the line answered, the error code
    hist,       \* the class of each line read
    inflight,   \* the lines read whose processing has not ended
    runErr,     \* Run returned an error
    op,         \* the operation invoked through both adapters
    supplied,   \* the values the caller supplies
    file,       \* the CLI's -f file
    cidFlag,    \* the CLI's --cid
    env,        \* the environment's answers to that invocation
    cli,        \* the leaf invocation's outcome
    mcp,        \* the tool dispatch's outcome
    raw,        \* the outcome of an api_request call in that environment
    built,      \* the manifest commands BuildCommands has gone through
    nodes,      \* the cobra commands created, in creation order
    parents,    \* BuildCommands' map from a path to its command
    leaf,       \* the flags of the leaf built for op
    tool,       \* the tool built for op
    now,        \* time.Now(), in ticks
    cacheFile,  \* cache.json in the configuration directory
    lastSet,    \* per key, the latest Set not followed by a Delete
    got,        \* the latest Get: its key, time and result, the latest
                \* Set of the key then, the file's entries before and after
    localFile,  \* manifest.yaml in the configuration directory: the
                \* version of the manifest it holds, "" when missing
    remote,     \* the version of the manifest the server publishes
    loaded,     \* the latest Load: what it returned, whether it contacted
                \* the server, what it met
    stored,     \* the credentials in the stored configuration
    login       \* runLogin: where it is, the polls made, its outcome

serverVars == <<manifest, sent, stdin, pc, nread, cur, exec, backend, resp,
                stdout, hist, inflight, runErr>>
buildVars == <<op, supplied, file, cidFlag, env, cli, mcp, raw>>
treeVars == <<built, nodes, parents>>
surfaceVars == <<leaf, tool>>
cacheVars == <<now, cacheFile, lastSet, got>>
loaderVars == <<localFile, remote, loaded>>
loginVars == <<stored, login>>
auxVars == <<surfaceVars, cacheVars, loaderVars, loginVars>>
vars == <<serverVars, buildVars, treeVars, auxVars>>

NoBackend == [called |-> FALSE, httpErr |-> "", StatusCode |-> 0]
NotRun == [ran |-> FALSE, res |-> NoExec]
Ran(res) == [ran |-> TRUE, res |-> res]

ServerIdle ==
    /\ sent = 0 /\ stdin = "open" /\ pc = "read" /\ nread = 0
    /\ cur = BlankLine /\ exec = NoExec /\ backend = NoBackend
    /\ resp = NoResponse /\ stdout = <<>> /\ hist = <<>> /\ inflight = {}
    /\ runErr = FALSE

BuildIdle ==
    /\ op = opList /\ supplied = {} /\ file = NoFile /\ cidFlag = <<>>
    /\ env = envOK /\ cli = NotRun /\ mcp = NotRun /\ raw = NotRun

TreeIdle == built = 0 /\ nodes = <<>> /\ parents = {}

NotBuilt == [built |-> FALSE, flags |-> {}, tool |-> Tool(<<>>, InputSchema(EmptyMap, <<>>))]
SurfaceIdle == leaf = NotBuilt /\ tool = NotBuilt

CacheIdle ==
    /\ now = 0 /\ cacheFile = NoCacheFile
    /\ lastSet = [k \in CacheKeys |-> NeverSet] /\ got = NoGet
LoaderIdle == localFile = "" /\ remote = "v1" /\ loaded = NotLoaded
LoginIdle == stored = NoCredentials /\ login = LoginNotStarted

AuxIdle == SurfaceIdle /\ CacheIdle /\ LoaderIdle /\ LoginIdle

----------------------------------------------------------------------------
(* The protocol server: Server.Run on stdin and stdout *)

ClientSend ==
    /\ stdin = "open" /\ sent < MaxLines
    /\ sent' = sent + 1
    /\ UNCHANGED <<manifest, stdin, pc, nread, cur, exec, backend, resp,
                   stdout, hist, inflight, runErr, buildVars, treeVars, auxVars>>

ClientClose ==
    /\ stdin = "open"
    /\ stdin' \in {"eof", "tail"}
    /\ UNCHANGED <<manifest, sent, pc, nread, cur, exec, backend, resp,
                   stdout, hist, inflight, runErr, buildVars, treeVars, auxVars>>

StdinFail ==
    /\ stdin = "open"
    /\ stdin' = "err"
    /\ UNCHANGED <<manifest, sent, pc, nread, cur, exec, backend, resp,
                   stdout, hist, inflight, runErr, buildVars, treeVars, auxVars>>

\* a variant that reads the next line while a backend call is pending
canRead_duringCall == pc \in {"read", "call"}

\* Run calls ReadString only at the top of its loop
canRead == pc = "read"

lineClass(line) ==
    IF line.kind = "request"
    THEN IF line.method = "initialized" THEN "notification" ELSE "request"
    ELSE line.kind

\* reader.ReadString('\n') returns a line
ReadLine ==
    /\ canRead /\ nread < sent
    /\ \E line \in Lines(manifest) :
          /\ cur' = line
          /\ hist' = Append(hist, lineClass(line))
    /\ nread' = nread + 1
    /\ inflight' = inflight \cup {nread + 1}
    /\ pc' = "handle"
    /\ UNCHANGED <<manifest, sent, stdin, exec, backend, resp, stdout, runErr,
                   buildVars, treeVars, auxVars>>

\* a variant of Run that returns io.EOF like any other read error
ReadEnd_eofIsError ==
    /\ canRead /\ nread = sent /\ stdin # "open"
    /\ pc' = "stopped"
    /\ runErr' = TRUE
    /\ UNCHANGED <<manifest, sent, stdin, nread, cur, exec, backend, resp,
                   stdout, hist, inflight, buildVars, treeVars, auxVars>>

\* reader.ReadString('\n') returns an error: io.EOF (with or without an
\* unterminated fragment, which is dropped) ends Run with nil, any other
\* error is returned
ReadEnd ==
    /\ canRead /\ nread = sent /\ stdin # "open"
    /\ pc' = "stopped"
    /\ runErr' = (stdin = "err")
    /\ UNCHANGED <<manifest, sent, stdin, nread, cur, exec, backend, resp,
                   stdout, hist, inflight, buildVars, treeVars, auxVars>>

\* line = strings.TrimSpace(line); if line == "" { continue }
SkipBlank ==
    /\ pc = "handle" /\ cur.kind = "blank"
    /\ pc' = "read"
    /\ inflight' = inflight \ {nread}
    /\ UNCHANGED <<manifest, sent, stdin, nread, cur, exec, backend, resp,
                   stdout, hist, runErr, buildVars, treeVars, auxVars>>

\* a variant of Run that returns the parse error instead of reporting it
HandleParseError_return ==
    /\ pc = "handle" /\ cur.kind = "malformed"
    /\ pc' = "stopped"
    /\ runErr' = TRUE
    /\ UNCHANGED <<manifest, sent, stdin, nread, cur, exec, backend, resp,
                   stdout, hist, inflight, buildVars, treeVars, auxVars>>

\* json.Unmarshal fails: s.sendError(nil, -32700, "Parse error", ...) and
\* continue
HandleParseError ==
    /\ pc = "handle" /\ cur.kind = "malformed"
    /\ resp' = parseErrorResponse
    /\ pc' = "write"
    /\ UNCHANGED <<manifest, sent, stdin, nread, cur, exec, backend, stdout,
                   hist, inflight, runErr, buildVars, treeVars, auxVars>>

\* a variant of a server with a session: until a response has been written
\* it serves initialize only
HandleRequest_session ==
    /\ pc = "handle" /\ cur.kind = "request"
    /\ \E e \in ServerEnvs :
          LET req == Request(cur)
              ex == IF req.Method = "tools/call"
                       /\ req.Params.form \notin {"absent", "invalid"}
                    THEN toolsCallExec(req, manifest, e) ELSE NoExec
              r == IF stdout = <<>> /\ req.Method # "initialize"
                   THEN Response(req.ID, ResultNil,
                                 Error(MethodNotFound, "Method not found"))
                   ELSE Server_handleRequest(req, manifest, ex)
          IN  IF r = NoResponse
              THEN /\ pc' = "read" /\ inflight' = inflight \ {nread}
                   /\ cur' = BlankLine
                   /\ UNCHANGED <<exec, backend, resp>>
              ELSE /\ exec' = ex
                   /\ backend' = IF BackendRequests(ex.log) # {}
                                 THEN [called |-> TRUE, httpErr |-> e.httpErr,
                                       StatusCode |-> e.StatusCode]
                                 ELSE NoBackend
                   /\ resp' = r
                   /\ pc' = IF NetworkCalls(ex.log) # {} THEN "call" ELSE "write"
                   /\ UNCHANGED <<cur, inflight>>
    /\ UNCHANGED <<manifest, sent, stdin, nread, stdout, hist, runErr, buildVars, treeVars, auxVars>>

\* resp := s.handleRequest(&req): nil for the notification, else a response
\* to send, after the executor's calls when it makes any
HandleRequest ==
    /\ pc = "handle" /\ cur.kind = "request"
    /\ \E e \in ServerEnvs :
          LET req == Request(cur)
              ex == IF req.Method = "tools/call"
                       /\ req.Params.form \notin {"absent", "invalid"}
                    THEN toolsCallExec(req, manifest, e) ELSE NoExec
              r == Server_handleRequest(req, manifest, ex)
          IN  IF r = NoResponse
              THEN /\ pc' = "read" /\ inflight' = inflight \ {nread}
                   /\ cur' = BlankLine
                   /\ UNCHANGED <<exec, backend, resp>>
              ELSE /\ exec' = ex
                   /\ backend' = IF BackendRequests(ex.log) # {}
                                 THEN [called |-> TRUE, httpErr |-> e.httpErr,
                                       StatusCode |-> e.StatusCode]
                                 ELSE NoBackend
                   /\ resp' = r
                   /\ pc' = IF NetworkCalls(ex.log) # {} THEN "call" ELSE "write"
                   /\ UNCHANGED <<cur, inflight>>
    /\ UNCHANGED <<manifest, sent, stdin, nread, stdout, hist, runErr, buildVars, treeVars, auxVars>>

\* the executor's blocking network calls return
CallReturn ==
    /\ pc = "call"
    /\ pc' = "write"
    /\ UNCHANGED <<manifest, sent, stdin, nread, cur, exec, backend, resp,
                   stdout, hist, inflight, runErr, buildVars, treeVars, auxVars>>

\* Server.sendResponse
sendResponse ==
    /\ pc = "write"
    /\ stdout' = Append(stdout, [line |-> nread,
                                 code |-> IF resp.Error.nil THEN 0 ELSE resp.Error.Code])
    /\ inflight' = inflight \ {nread}
    /\ pc' = "read"
    /\ cur' = BlankLine /\ exec' = NoExec /\ backend' = NoBackend
    /\ resp' = NoResponse
    /\ UNCHANGED <<manifest, sent, stdin, nread, hist, runErr, buildVars, treeVars, auxVars>>

Init ==
    /\ manifest \in Manifests
    /\ ServerIdle
    /\ BuildIdle
    /\ TreeIdle
    /\ AuxIdle

Next ==
    \/ ClientSend
    \/ ClientClose
    \/ StdinFail
    \/ ReadLine
    \/ ReadEnd
    \/ SkipBlank
    \/ HandleParseError
    \/ HandleRequest
    \/ CallReturn
    \/ sendResponse

Spec == Init /\ [][Next]_vars

\* a step of Run; a pending backend call returns
RunStep ==
    \/ ReadLine \/ ReadEnd
    \/ SkipBlank \/ HandleParseError \/ HandleRequest
    \/ CallReturn \/ sendResponse

\* Run is scheduled whenever it can take a step
Fairness == WF_vars(RunStep)

\* the client of the terminating runs writes at most this many lines
NextLive == Next /\ sent' <= MaxLiveLines

SpecLive == Init /\ [][NextLive]_vars /\ Fairness

----------------------------------------------------------------------------
(* One operation invoked through the CLI leaf and through its tool *)

RunCli ==
    /\ ~cli.ran
    /\ cli' = Ran(leafCommand(CliInvocation(op, supplied, file, cidFlag), op, env))
    /\ UNCHANGED <<serverVars, treeVars, auxVars, op, supplied, file, cidFlag, env, mcp, raw>>

RunMcp ==
    /\ ~mcp.ran
    /\ mcp' = Ran(CommandExecutor_Execute(BuildManifest, ToolName(op), supplied, env))
    /\ UNCHANGED <<serverVars, treeVars, auxVars, op, supplied, file, cidFlag, env, cli, raw>>

\* tools/call of api_request in the same environment
RunRaw ==
    /\ ~raw.ran
    /\ raw' = Ran(Server_handleAPIRequest(RawCall, env))
    /\ UNCHANGED <<serverVars, treeVars, auxVars, op, supplied, file, cidFlag, env, cli, mcp>>

InitBuild ==
    /\ manifest = BuildManifest
    /\ ServerIdle
    /\ op \in BuildOps
    /\ supplied \in SuppliedSets(op)
    /\ file \in Files
    /\ cidFlag \in {<<>>, s_c1}
    /\ env \in BuildEnvs
    /\ cli = NotRun /\ mcp = NotRun /\ raw = NotRun
    /\ TreeIdle
    /\ AuxIdle

NextBuild == RunCli \/ RunMcp \/ RunRaw

SpecBuild == InitBuild /\ [][NextBuild]_vars

----------------------------------------------------------------------------
(* The command tree: Builder.BuildCommands *)

\* an operation of that path
treeOp(path) == Command(path, s_userEndpoint, s_GET, FALSE, <<>>, <<>>, FALSE)

TreePaths == {s_pA, s_pAB, s_pABC, s_pAD}

\* the manifests of distinct operation paths, in every order
TreeManifests ==
    {[i \in 1..Len(ps) |-> treeOp(ps[i])] :
        ps \in {q \in UNION {[1..n -> TreePaths] : n \in 0..MaxTreeOps} :
                  \A i, j \in 1..Len(q) : q[i] = q[j] => i = j}}

\* a cobra.Command: its name, the manifest command its RunE runs (0 for a
\* container, which has none) and the command it was added to (0 for none)
CobraCommand(use, cmdDef, parent) == [Use |-> use, RunE |-> cmdDef, parent |-> parent]

\* the loop of Builder.buildCommandTree over the path's parts, for the k-th
\* manifest command
RECURSIVE buildParts(_, _, _, _, _, _, _)
buildParts(parts, i, currentPath, parent, k, created, known) ==
    IF i > Len(parts) THEN [nodes |-> created, parents |-> known]
    ELSE LET path == IF currentPath = <<>> THEN parts[i]
                     ELSE currentPath \o s_slash \o parts[i]
             isLeaf == i = Len(parts)
             id == Len(created) + 1
         IN  IF Has(known, path)
             THEN buildParts(parts, i + 1, path, Get(known, path), k, created, known)
             ELSE buildParts(parts, i + 1, path, id, k,
                    Append(created, CobraCommand(parts[i], IF isLeaf THEN k ELSE 0, parent)),
                    Put(known, path, id))

\* Builder.buildCommandTree
Builder_buildCommandTree(cmdDef, k, created, known) ==
    buildParts(Split(cmdDef.Command, "/"), 1, <<>>, 0, k, created, known)

\* BuildCommands: one iteration of the loop over the manifest's commands
BuildCommandTree ==
    /\ built < Len(manifest)
    /\ LET t == Builder_buildCommandTree(manifest[built + 1], built + 1, nodes, parents)
       IN  nodes' = t.nodes /\ parents' = t.parents
    /\ built' = built + 1
    /\ UNCHANGED <<serverVars, buildVars, auxVars>>

InitTree ==
    /\ manifest \in TreeManifests
    /\ ServerIdle
    /\ BuildIdle
    /\ TreeIdle
    /\ AuxIdle

NextTree == BuildCommandTree

SpecTree == InitTree /\ [][NextTree]_vars

----------------------------------------------------------------------------
(* The surface of one operation: its CLI leaf and its tool *)

\* the field lists and endpoints an operation is drawn from
SurfaceFields ==
    {<<>>, <<fName>>, <<fName, fTags, fX>>, <<fOwner, fLevel>>, <<fKind, fOwner>>,
     <<fLevel>>}
SurfaceEndpoints == {s_tagEndpoint, s_ownEndpoint}

\* operations with and without an input schema (Input == nil has no fields
\* and no flags)
SurfaceOps ==
    {Command(s_tagPath, ep, s_POST, TRUE, fs, fl, rj) :
        ep \in SurfaceEndpoints, fs \in SurfaceFields,
        fl \in {<<>>, <<flForce>>}, rj \in BOOLEAN}
    \cup {Command(s_tagPath, ep, s_POST, FALSE, <<>>, <<>>, rj) :
            ep \in SurfaceEndpoints, rj \in BOOLEAN}

\* BuildCommands builds the leaf of the operation
BuildLeaf ==
    /\ ~leaf.built
    /\ leaf' = [built |-> TRUE, flags |-> Builder_buildLeafCommand(op),
                tool |-> NotBuilt.tool]
    /\ UNCHANGED <<serverVars, buildVars, treeVars, tool, cacheVars, loaderVars, loginVars>>

\* buildTools builds the tool of the operation
BuildTool ==
    /\ ~tool.built
    /\ tool' = [built |-> TRUE, flags |-> {}, tool |-> commandTool(op)]
    /\ UNCHANGED <<serverVars, buildVars, treeVars, leaf, cacheVars, loaderVars, loginVars>>

InitSurface ==
    /\ manifest = <<>>
    /\ ServerIdle
    /\ op \in SurfaceOps
    /\ supplied = {} /\ file = NoFile /\ cidFlag = <<>>
    /\ env = envOK /\ cli = NotRun /\ mcp = NotRun /\ raw = NotRun
    /\ TreeIdle
    /\ AuxIdle

NextSurface == BuildLeaf \/ BuildTool

SpecSurface == InitSurface /\ [][NextSurface]_vars

----------------------------------------------------------------------------
(* The file cache: Set, Delete and Get as time passes *)

\* the clock advances
Tick ==
    /\ now < MaxTime
    /\ now' = now + 1
    /\ UNCHANGED <<serverVars, buildVars, treeVars, surfaceVars, cacheFile,
                   lastSet, got, loaderVars, loginVars>>

\* Manager.Set
CacheSet ==
    /\ \E key \in CacheKeys, value \in CacheValues, ttl \in CacheTTLs :
          /\ cacheFile' = Manager_Set(cacheFile, key, value, ttl, now)
          /\ lastSet' = [lastSet EXCEPT
                            ![key] = [set |-> TRUE, Value |-> value,
                                      ExpiresAt |-> now + ttl]]
    /\ UNCHANGED <<serverVars, buildVars, treeVars, surfaceVars, now, got,
                   loaderVars, loginVars>>

\* Manager.Delete
CacheDelete ==
    /\ \E key \in CacheKeys :
          /\ cacheFile' = Manager_Delete(cacheFile, key)
          /\ lastSet' = [lastSet EXCEPT ![key] = NeverSet]
    /\ UNCHANGED <<serverVars, buildVars, treeVars, surfaceVars, now, got,
                   loaderVars, loginVars>>

\* Manager.Get
CacheGet ==
    /\ \E key \in CacheKeys :
          LET r == Manager_Get(cacheFile, key, now)
          IN  /\ cacheFile' = r.file
              /\ got' = [ran |-> TRUE, key |-> key, at |-> now,
                         value |-> r.value, ok |-> r.ok, latest |-> lastSet[key],
                         before |-> Manager_load(cacheFile),
                         after |-> Manager_load(r.file)]
    /\ UNCHANGED <<serverVars, buildVars, treeVars, surfaceVars, now, lastSet,
                   loaderVars, loginVars>>

InitCache ==
    /\ manifest = <<>>
    /\ ServerIdle /\ BuildIdle /\ TreeIdle
    /\ AuxIdle

NextCache == Tick \/ CacheSet \/ CacheDelete \/ CacheGet

SpecCache == InitCache /\ [][NextCache]_vars

----------------------------------------------------------------------------
(* Manifest loading: Loader.Load as time passes and versions are published *)

\* the version-check entry of the cache file is there and unexpired
versionCheckFresh ==
    /\ Has(Manager_load(cacheFile), versionCheckCacheKey)
    /\ ~expired(now, Get(Manager_load(cacheFile), versionCheckCacheKey))

\* Loader.Load
Load ==
    /\ \E verOK, manOK, saveOK \in BOOLEAN :
          LET r == Loader_Load(localFile, cacheFile, now, remote, verOK, manOK, saveOK)
          IN  /\ cacheFile' = r.file
              /\ lastSet' = IF r.contacted /\ verOK
                            THEN [lastSet EXCEPT ![versionCheckCacheKey] =
                                     [set |-> TRUE, Value |-> remote,
                                      ExpiresAt |-> now + versionCheckTTL]]
                            ELSE lastSet
              /\ localFile' = r.local
              /\ loaded' = [ran |-> TRUE, manifest |-> r.manifest, err |-> r.err,
                            contacted |-> r.contacted,
                            owed |-> IF r.failed THEN TRUE
                                     ELSE IF r.contacted /\ verOK THEN FALSE
                                     ELSE loaded.owed,
                            owedBefore |-> loaded.owed,
                            freshBefore |-> versionCheckFresh]
    /\ UNCHANGED <<serverVars, buildVars, treeVars, surfaceVars, now, got,
                   remote, loginVars>>

\* the server publishes another version of the manifest
RemotePublish ==
    /\ remote' \in ManifestVersions \ {remote}
    /\ UNCHANGED <<serverVars, buildVars, treeVars, surfaceVars, cacheVars,
                   localFile, loaded, loginVars>>

InitLoad ==
    /\ manifest = <<>>
    /\ ServerIdle /\ BuildIdle /\ TreeIdle
    /\ SurfaceIdle /\ CacheIdle /\ LoginIdle
    /\ localFile \in {"", "v1"} /\ remote \in ManifestVersions
    /\ loaded = NotLoaded

NextLoad == Tick \/ Load \/ RemotePublish

SpecLoad == InitLoad /\ [][NextLoad]_vars

----------------------------------------------------------------------------
(* runLogin, one step per call it waits for *)

\* runLogin up to the loop: config.Load, InitiateDeviceAuth, openBrowser,
\* and the deadline
LoginStart ==
    /\ login.pc = "idle"
    /\ \E loadOK, initOK, browserOK \in BOOLEAN :
          login' = IF ~loadOK THEN LoginDone(login, "failed to load config")
                   ELSE IF ~initOK
                   THEN LoginDone(login, "failed to initiate device auth")
                   ELSE IF ~browserOK
                   THEN LoginDone(login, "failed to open browser")
                   ELSE [login EXCEPT !.pc = "polling"]
    /\ UNCHANGED <<serverVars, buildVars, treeVars, surfaceVars, cacheVars,
                   loaderVars, stored>>

\* one turn of runLogin's loop: the deadline test, PollDeviceAuth, and what
\* follows its answer
LoginPoll ==
    /\ login.pc = "polling"
    /\ IF login.elapsed >= MaxPolls
       THEN /\ login' = LoginDone(login, "authorization timed out")
            /\ stored' = stored
       ELSE \E pollOK, exchangeOK, saveOK, truncated \in BOOLEAN :
            \E answer \in PollResponses :
               LET l == [login EXCEPT !.answers =
                           Append(@, [at |-> login.elapsed, ok |-> pollOK,
                                      resp |-> answer])]
                   r == runLogin_onResponse(l, stored, answer, exchangeOK,
                                            saveOK, truncated)
               IN  IF ~pollOK
                   THEN /\ login' = LoginDone(l, "failed to check authorization")
                        /\ stored' = stored
                   ELSE /\ login' = r.login
                        /\ stored' = r.stored
    /\ UNCHANGED <<serverVars, buildVars, treeVars, surfaceVars, cacheVars,
                   loaderVars>>

InitLogin ==
    /\ manifest = <<>>
    /\ ServerIdle /\ BuildIdle /\ TreeIdle
    /\ SurfaceIdle /\ CacheIdle /\ LoaderIdle
    /\ stored \in {NoCredentials, OldCredentials}
    /\ login = LoginNotStarted

NextLogin == LoginStart \/ LoginPoll

SpecLogin == InitLogin /\ [][NextLogin]_vars

----------------------------------------------------------------------------
(* Properties of one operation invoked through both adapters (SpecBuild) *)

\* the backend requests of an invocation as the backend sees them
Requests(res) ==
    {[method |-> res.log[i].method, url |-> res.log[i].url,
      hasBody |-> res.log[i].hasBody, body |-> res.log[i].body] :
        i \in BackendRequests(res.log)}

\* the caller supplies every required input of the operation
AllRequiredSupplied(cmdDef, sup) ==
    cmdDef.HasInput =>
        \A i \in 1..Len(cmdDef.Fields) :
            cmdDef.Fields[i].Required => Has(sup, cmdDef.Fields[i].Name)

\* configuration loads, the stored session refreshes, an account is set
Authenticated(e) ==
    /\ ~e.cfgErr /\ ~e.cfgErr2
    /\ e.RefreshToken /\ e.Firebase /\ e.refreshOK
    /\ e.AccountID # <<>>

\* C1: with the same account id, cluster id and base URL, no bulk-input
\* file, and arguments both adapters accept, the CLI leaf and the tool
\* dispatch send the same backend request: same method, same URL, same
\* body and same presence of a body, key_value array fields included.
C1_SameRequest ==
    (/\ cli.ran /\ mcp.ran
     /\ file = NoFile /\ cidFlag = <<>>
     /\ Authenticated(env)
     /\ Expressible(op, supplied) /\ AllRequiredSupplied(op, supplied))
    => Requests(cli.res) = Requests(mcp.res)

ClusterIDRequired ==
    {"cluster ID required: use --cid flag or set default with 'runos config set cid <cluster-id>'",
     "cluster ID required: set default with 'runos config set cid <cluster-id>'"}

\* the invocation failed for want of a cluster id without any network call
NoClusterIDOutcome(r) ==
    /\ r.ran
    => /\ r.res.err.prefix \in ClusterIDRequired
       /\ NetworkCalls(r.res.log) = {}

\* C8: when the endpoint template references the cluster id and none is
\* resolvable from the flag, the environment or the configuration, the
\* invocation fails with "cluster ID required" and attempts no network call,
\* neither a token refresh nor a backend request, in the CLI leaf and in the
\* tool dispatch.
C8_NoClusterNoNetwork ==
    (/\ Contains(op.Endpoint, s_cid)
     /\ cidFlag = <<>> /\ GetDefaultClusterID(env) = <<>>
     /\ file = NoFile
     /\ Authenticated(env)
     /\ Expressible(op, supplied) /\ AllRequiredSupplied(op, supplied))
    => NoClusterIDOutcome(cli) /\ NoClusterIDOutcome(mcp)

valkeyRequest ==
    [method |-> s_POST, url |-> s_baseURL \o s_valkeyURL, hasBody |-> TRUE,
     body |-> {<<s_name, JStr(s_myredis)>>}]

\* C9: for services/add/valkey (POST /v1/clusters/:cid/services, one
\* required positional string field name) with account A, cluster c1 and
\* positional value myredis, the request built is POST
\* {base}/v1/clusters/c1/services with body {"name":"myredis"}.
C9_ValkeyBody ==
    (/\ op = opValkey /\ supplied = {<<s_name, JStr(s_myredis)>>}
     /\ file = NoFile /\ cidFlag = <<>>
     /\ env = envOK)
    => /\ cli.ran => Requests(cli.res) = {valkeyRequest}
       /\ mcp.ran => Requests(mcp.res) = {valkeyRequest}

\* the declared keys with a scalar value: string and integer fields, switches
scalarKeys(cmdDef) ==
    IF cmdDef.HasInput
    THEN {cmdDef.Fields[i].Name :
            i \in {j \in 1..Len(cmdDef.Fields) : cmdDef.Fields[j].Type # "array"}}
         \cup {cmdDef.Flags[i].Name : i \in 1..Len(cmdDef.Flags)}
    ELSE {}

\* the declared default of a key, JNull when it has none
declaredDefault(cmdDef, x) ==
    IF \E i \in 1..Len(cmdDef.Fields) : cmdDef.Fields[i].Name = x
    THEN (CHOOSE f \in {cmdDef.Fields[i] : i \in 1..Len(cmdDef.Fields)} : f.Name = x).Default
    ELSE JBool((CHOOSE f \in {cmdDef.Flags[i] : i \in 1..Len(cmdDef.Flags)} : f.Name = x).Default)

\* the value the three layers give a key, JNull when no layer defines it
layered(cmdDef, x, sup, f) ==
    IF Has(sup, x) THEN Get(sup, x)
    ELSE IF f.given /\ Has(f.data, x) THEN Get(f.data, x)
    ELSE declaredDefault(cmdDef, x)

\* C10: for every key x the resolved value, as the CLI's request carries it,
\* is the explicitly supplied value if the caller supplied x, else the file's
\* value if the file defines x, else the declared default (a positional
\* value may travel in the path instead of the body).
C10_Layered ==
    (/\ cli.ran /\ cli.res.err = NoErr
     /\ op.Method \in BodyMethods
     /\ Expressible(op, supplied))
    => \A r \in Requests(cli.res) : \A x \in scalarKeys(op) :
          LET want == layered(op, x, supplied, file)
          IN  IF Has(r.body, x) THEN Get(r.body, x) = want
              ELSE want = JNull \/ x \in positionalNames(op)

----------------------------------------------------------------------------
(* Properties of the protocol server (Spec) *)

\* Run is processing a tools/call whose params parse
inToolsCall ==
    /\ pc \in {"call", "write"}
    /\ cur.kind = "request" /\ cur.method = "tools/call"
    /\ cur.params.form \notin {"absent", "invalid"}

calledTool == IF cur.params.form = "null" THEN <<>> ELSE cur.params.name

\* a JSON-RPC result holding exactly one text content block, no error object
oneTextBlock(r) ==
    /\ marshal(r).hasResult /\ ~marshal(r).hasError
    /\ r.Result.t = "call"
    /\ Len(r.Result.content) = 1
    /\ r.Result.content[1].Type = "text"

\* the backend refused the request made for the current line
backendRefused == backend.called /\ backend.httpErr = "" /\ backend.StatusCode >= 400

\* C2 as stated: every tools/call whose params parse is answered by a result
\* holding exactly one text block, never an error object; isError is set if
\* and only if execution failed, a backend error included, and the text is
\* then the failure message.
C2_ErrorFlagIffFailed ==
    (inToolsCall /\ pc = "write")
    => /\ oneTextBlock(resp)
       /\ resp.Result.isError <=> (exec.err # NoErr \/ backendRefused)
       /\ resp.Result.isError => resp.Result.content[1].Text = exec.err

\* C2, amended: every tools/call whose params parse is answered by a result
\* holding exactly one text block, never an error object; isError is set if
\* and only if the executor returned an error, and the text is then its
\* message; a backend status of 400 or more is such an error for a manifest
\* tool and is not one for api_request, whose result is then unflagged.
C2_ErrorFlagIffExecutorError ==
    (inToolsCall /\ pc = "write")
    => /\ oneTextBlock(resp)
       /\ resp.Result.isError <=> exec.err # NoErr
       /\ resp.Result.isError => resp.Result.content[1].Text = exec.err
       /\ ~resp.Result.isError => resp.Result.content[1].Text = Msg("", 0, exec.text)
       /\ backendRefused => (resp.Result.isError <=> calledTool # s_api_request)

\* a manifest tool's backend error is about to be sent as a flagged result
C2_Witness ==
    /\ inToolsCall /\ pc = "write"
    /\ backendRefused /\ calledTool # s_api_request
    /\ resp.Result.isError

\* the responses written for line n
answers(n) == {k \in 1..Len(stdout) : stdout[k].line = n}

\* line n has been processed to the end
done(n) == n < nread \/ (n = nread /\ pc \in {"read", "stopped"})

\* C3: a line that cannot be parsed as a JSON-RPC request gets one response
\* with code -32700 and the server keeps running: it stops only at the end of
\* the stream, once every line has been read, and every line after a
\* malformed one is answered as its kind requires.
C3_ParseErrorKeepsRunning ==
    /\ (pc = "write" /\ cur.kind = "malformed")
       => /\ marshal(resp).hasError /\ ~marshal(resp).hasResult
          /\ resp.Error.Code = -32700
    /\ \A n \in 1..nread :
          (hist[n] = "malformed" /\ done(n))
          => /\ Cardinality(answers(n)) = 1
             /\ \A k \in answers(n) : stdout[k].code = -32700
    /\ \A n \in 1..nread : \A m \in (n + 1)..nread :
          (hist[n] = "malformed" /\ done(m))
          => Cardinality(answers(m))
                = IF hist[m] \in {"malformed", "request"} THEN 1 ELSE 0
    /\ pc = "stopped" => (stdin # "open" /\ nread = sent /\ inflight = {})

\* a second malformed line has been answered after a first one
C3_Witness ==
    /\ Len(hist) = 2 /\ hist[1] = "malformed" /\ hist[2] = "malformed"
    /\ Len(stdout) = 2 /\ stdout[2].code = -32700
    /\ pc = "read"

\* C4: lines are handled strictly one at a time: at most one is in flight,
\* a line is read only when the previous one is done, each request line gets
\* exactly one response and the initialized notification none, and the
\* responses are in the order of their requests.
C4_OneAtATime ==
    /\ Cardinality(inflight) <= 1
    /\ pc \in {"handle", "call", "write"} <=> inflight = {nread}
    /\ pc \in {"read", "stopped"} <=> inflight = {}
    /\ \A n \in 1..nread :
          Cardinality(answers(n))
            = IF done(n) /\ hist[n] \in {"malformed", "request"} THEN 1 ELSE 0
    /\ \A j, k \in 1..Len(stdout) : j < k => stdout[j].line < stdout[k].line

\* the server is blocked in a backend call while another line waits
C4_Witness ==
    /\ pc = "call" /\ nread < sent
    /\ backend.called

\* C5: every response has jsonrpc "2.0", the id of the request it answers,
\* and exactly one of result and error, for every method.
C5_ResponseEnvelope ==
    pc = "write"
    => /\ marshal(resp).jsonrpc = "2.0"
       /\ cur.kind = "request" => marshal(resp).id = cur.id
       /\ marshal(resp).hasResult # marshal(resp).hasError

\* the tool names tools/list publishes for the manifest's commands
published(m) == [i \in 1..Len(m) |-> Server_buildTools(m)[i + 1].Name]

\* C6: the tool name tools/list publishes for an operation, given to
\* tools/call, resolves to exactly that operation; no two operations share
\* a tool name and no published name fails to resolve.
C6_NameInvertible ==
    (inToolsCall /\ pc = "write")
    => \A i \in 1..Len(manifest) :
          calledTool = published(manifest)[i]
          => /\ findCommand(manifest, calledTool) = i
             /\ exec.err.prefix # "unknown command: %s"
             /\ \A j \in 1..Len(manifest) :
                   published(manifest)[j] = calledTool => j = i

\* the call names neither api_request nor a tool that resolves
unknownTool ==
    /\ inToolsCall
    /\ calledTool # s_api_request
    /\ findCommand(manifest, calledTool) = 0

\* C7: a tools/call whose tool name is not api_request and resolves to no
\* operation is answered by a result, not an error object, with isError and
\* an "unknown command" message, before any configuration load, token
\* refresh or backend request.
C7_UnknownToolFirst ==
    unknownTool
    => /\ pc = "write"
       /\ exec.log = <<>> /\ ~backend.called
       /\ oneTextBlock(resp) /\ resp.Result.isError
       /\ resp.Result.content[1].Text.prefix = "unknown command: %s"
       /\ resp.Result.content[1].Text.arg = calledTool

\* an unknown tool's answer is about to be sent
C7_Witness ==
    /\ unknownTool /\ calledTool = s_nope
    /\ pc = "write" /\ resp.Result.isError

----------------------------------------------------------------------------
(* Endpoint substitution, array formats and validation (SpecBuild) *)

\* the positional fields of the operation that have a supplied value
filled(cmdDef, sup) == {n \in positionalNames(cmdDef) : Has(sup, n)}

\* the field whose placeholder, in either style, starts at position i of the
\* template: the longest name for the colon style; <<>> when there is none
placeholderAt(t, i, names) ==
    LET bracket == {n \in names : HasPrefixAt(t, s_lbrace \o n \o s_rbrace, i)}
        colon == {n \in names : HasPrefixAt(t, s_colon \o n, i)}
    IN  IF bracket # {} THEN [name |-> CHOOSE n \in bracket : TRUE, len |-> 2]
        ELSE IF colon # {}
             THEN [name |-> CHOOSE n \in colon : \A o \in colon : Len(o) <= Len(n),
                   len |-> 1]
        ELSE [name |-> <<>>, len |-> 0]

\* the template with every placeholder of a supplied positional field, in
\* either style, replaced by that field's value
RECURSIVE fillFrom(_, _, _, _)
fillFrom(t, i, names, sup) ==
    IF i > Len(t) THEN <<>>
    ELSE LET ph == placeholderAt(t, i, names)
         IN  IF ph.len = 0 THEN <<t[i]>> \o fillFrom(t, i + 1, names, sup)
             ELSE SprintfV(Get(sup, ph.name))
                  \o fillFrom(t, i + Len(ph.name) + ph.len, names, sup)

\* the template names one positional field in both styles
bothStyles(cmdDef) ==
    \E n \in positionalNames(cmdDef) :
        /\ Contains(cmdDef.Endpoint, s_lbrace \o n \o s_rbrace)
        /\ \E i \in 1..Len(cmdDef.Endpoint) :
              placeholderAt(cmdDef.Endpoint, i, positionalNames(cmdDef))
                = [name |-> n, len |-> 1]

\* C11: when the endpoint template holds both the {field} and the :field
\* placeholder of one positional field, every occurrence of both styles is
\* replaced by the field's resolved value and no placeholder of it remains
\* in the URL, in the CLI leaf and in the tool dispatch.
C11_BothStylesFilled ==
    (/\ bothStyles(op)
     /\ file = NoFile
     /\ Authenticated(env)
     /\ Expressible(op, supplied) /\ AllRequiredSupplied(op, supplied))
    => \A r \in (IF cli.ran THEN Requests(cli.res) ELSE {})
                \cup (IF mcp.ran THEN Requests(mcp.res) ELSE {}) :
          r.url = s_baseURL \o fillFrom(op.Endpoint, 1, filled(op, supplied), supplied)

\* the array fields of the operation declared with the key_value format
keyValueFields(cmdDef) ==
    IF cmdDef.HasInput
    THEN {cmdDef.Fields[i].Name :
            i \in {j \in 1..Len(cmdDef.Fields) :
                     /\ cmdDef.Fields[j].Type = "array"
                     /\ cmdDef.Fields[j].Format = "key_value"}}
    ELSE {}

\* item is the pair of the token: {key, value} split at the first colon, or
\* {key} alone for a token without a colon
pairOf(token, item) ==
    /\ item.k = "object"
    /\ IF \E i \in 1..Len(token) : token[i] = ":"
       THEN /\ Keys(item.v) = {s_key, s_value}
            /\ Get(item.v, s_key).k = "string" /\ Get(item.v, s_value).k = "string"
            /\ Get(item.v, s_key).v \o s_colon \o Get(item.v, s_value).v = token
            /\ \A i \in 1..Len(Get(item.v, s_key).v) : Get(item.v, s_key).v[i] # ":"
       ELSE item.v = {<<s_key, JStr(token)>>}

\* C12: an array field with the key_value format turns each input token into
\* a pair, in input order: {key, value} split at the first colon of a token
\* that has one, {key} with no value otherwise.
C12_KeyValuePairs ==
    cli.ran
    => \A r \in Requests(cli.res) : \A n \in keyValueFields(op) :
          Has(supplied, n)
          => LET tokens == Get(supplied, n).v
                 items == Get(r.body, n)
             IN  /\ Has(r.body, n)
                 /\ items.k = "array"
                 /\ Len(items.v) = Len(tokens)
                 /\ \A i \in 1..Len(tokens) : pairOf(tokens[i].v, items.v[i])

\* a token with two colons has been sent as a pair by the CLI
C12_Witness ==
    /\ cli.ran /\ op = opTag
    /\ Has(supplied, s_tags) /\ Get(supplied, s_tags) = JArr(<<JStr(s_k_v_w)>>)
    /\ \E r \in Requests(cli.res) : r.hasBody

\* a cluster id is at hand when the endpoint needs one
clusterResolvable(cmdDef, e) ==
    Contains(cmdDef.Endpoint, s_cid) => GetDefaultClusterID(e) # <<>>

\* the invocation failed before any backend request
failedUnsent(r) == r.ran => (r.res.err # NoErr /\ Requests(r.res) = {})

\* C13: when a required field has no value after resolution, or a required
\* positional field's placeholder would stay in the URL, the invocation
\* fails with a validation error and sends no backend request, in the CLI
\* leaf and in the tool dispatch.
C13_RequiredOrFail ==
    (/\ ~AllRequiredSupplied(op, supplied)
     /\ file = NoFile /\ cidFlag = <<>>
     /\ Authenticated(env) /\ clusterResolvable(op, env))
    => failedUnsent(cli) /\ failedUnsent(mcp)

----------------------------------------------------------------------------
(* Dispatch of the protocol server (Spec, SpecLive) *)

\* the argument is a non-empty string of the api_request call
rawArg(key) ==
    /\ IsString(cur.params.args, key)
    /\ Get(cur.params.args, key).v # <<>>

\* C14: a tools/call of api_request issues a backend call only when method,
\* endpoint and cluster id are all present in the arguments; when one of
\* them is missing or empty the call yields a tool-execution error and no
\* backend call.
C14_RawNeedsAllThree ==
    (/\ inToolsCall /\ calledTool = s_api_request
     /\ ~(rawArg(s_method) /\ rawArg(s_endpoint) /\ rawArg(s_cidArg)))
    => /\ exec.err # NoErr
       /\ BackendRequests(exec.log) = {} /\ ~backend.called
       /\ pc = "write" => resp.Result.isError

knownMethods == {"initialize", "initialized", "tools/list", "tools/call", "ping"}

\* Run holds the response to a request line
answering == pc \in {"call", "write"} /\ cur.kind = "request"

\* a JSON-RPC error of this code and no result
errorOnly(r, code) ==
    /\ marshal(r).hasError /\ ~marshal(r).hasResult
    /\ r.Error.Code = code

\* C15: a parseable request whose method is none of initialize, initialized,
\* tools/list, tools/call, ping is answered with a JSON-RPC error of code
\* -32601, the executor is not invoked for it, and the server keeps running.
C15_MethodNotFound ==
    /\ (answering /\ cur.method \notin knownMethods)
       => /\ pc = "write"
          /\ errorOnly(resp, -32601)
          /\ marshal(resp).id = (IF cur.id = JNull THEN IdAbsent ELSE cur.id)
          /\ exec = NoExec /\ ~backend.called
    /\ \A k \in 1..Len(stdout) :
          stdout[k].code = -32601
          => /\ hist[stdout[k].line] = "request"
             /\ (pc = "stopped" => stdin # "open" /\ nread = sent)

\* an unknown method is about to be answered
C15_Witness ==
    /\ answering /\ cur.method = "resources/list"
    /\ pc = "write" /\ resp.Error.Code = -32601

\* C16: a tools/call whose params are absent or do not decode into a name
\* and an arguments object is answered with a JSON-RPC error of code -32602;
\* neither the executor nor the raw-request path is invoked for it.
C16_InvalidParams ==
    (/\ answering /\ cur.method = "tools/call"
     /\ cur.params.form \in {"absent", "invalid"})
    => /\ pc = "write"
       /\ errorOnly(resp, -32602)
       /\ exec = NoExec /\ exec.log = <<>> /\ ~backend.called

\* undecodable params are about to be answered
C16_Witness ==
    /\ answering /\ cur.method = "tools/call"
    /\ cur.params.form = "invalid"
    /\ pc = "write" /\ resp.Error.Code = -32602

\* C17: the run ends only through the input stream: at end-of-stream it
\* stops without error, on another read failure it returns the failure, no
\* request makes it stop; once the input has ended and every backend call
\* returns, the run terminates.
C17_EndsWithInput ==
    /\ [](pc = "stopped"
          => /\ stdin # "open" /\ nread = sent
             /\ runErr = (stdin = "err")
             /\ inflight = {} /\ cur = BlankLine)
    /\ [](pc # "stopped" => ~runErr)
    /\ (stdin # "open") ~> (pc = "stopped")

\* the run has ended cleanly at end-of-stream after answering a line
C17_Witness ==
    /\ pc = "stopped" /\ stdin = "eof" /\ ~runErr
    /\ Len(stdout) >= 1

\* the name is the path with every '/' turned into '_'
namedAfter(name, path) ==
    /\ Len(name) = Len(path)
    /\ \A j \in 1..Len(path) : name[j] = (IF path[j] = "/" THEN "_" ELSE path[j])

\* C18: tools/list answers with api_request and exactly one tool per
\* manifest operation, named by the path with '/' replaced by '_', in
\* manifest order; api_request is there whatever the manifest holds.
C18_ToolsList ==
    (answering /\ cur.method = "tools/list")
    => /\ pc = "write"
       /\ marshal(resp).hasResult /\ ~marshal(resp).hasError
       /\ resp.Result.t = "tools"
       /\ Len(resp.Result.tools) = Len(manifest) + 1
       /\ resp.Result.tools[1].Name = s_api_request
       /\ \A i \in 1..Len(manifest) :
             namedAfter(resp.Result.tools[i + 1].Name, manifest[i].Command)

\* the tools of a manifest of two operations are about to be listed
C18_Witness ==
    /\ answering /\ cur.method = "tools/list" /\ pc = "write"
    /\ Len(manifest) = 2 /\ Len(resp.Result.tools) = 3

----------------------------------------------------------------------------
(* Backend errors (SpecBuild) *)

\* the backend answers with a status of 400 or more
refused == env.httpErr = "" /\ env.StatusCode >= 400

\* the invocation's error carries the status code and the response body
reported(res) ==
    /\ res.err.prefix = "API error (%d): %s"
    /\ res.err.status = env.StatusCode
    /\ res.err.arg = s_respBody

\* the result of the tools/call that got this answer from its executor
toolResult(res) ==
    Server_handleToolsCall(
        Request(Line("request", JNum(s_1), "tools/call",
                     Params("object", s_nope, EmptyMap))), res).Result

\* the CLI leaf and the manifest tool report a refused request as a failure,
\* the leaf without calling the output formatter
refusalReported ==
    /\ (cli.ran /\ Requests(cli.res) # {})
       => /\ reported(cli.res)
          /\ \A i \in 1..Len(cli.res.log) : cli.res.log[i].op # "formatter.Format"
    /\ (mcp.ran /\ Requests(mcp.res) # {})
       => /\ reported(mcp.res)
          /\ toolResult(mcp.res).isError
          /\ toolResult(mcp.res).content[1].Text = mcp.res.err

\* C19 as stated: when the backend answers with a status of 400 or more the
\* invocation is reported as a failure carrying the status code and the
\* body: the CLI leaf returns an error without calling the formatter, and a
\* tools/call, of a manifest tool and of api_request alike, has isError set.
C19_RefusalIsFailure ==
    refused
    => /\ refusalReported
       /\ (raw.ran /\ Requests(raw.res) # {})
          => /\ toolResult(raw.res).isError
             /\ reported(raw.res)

\* C19, amended: when the backend answers with a status of 400 or more, the
\* CLI leaf returns an error carrying the status code and the body without
\* calling the formatter and a tools/call of a manifest tool has isError set
\* with that message; a tools/call of api_request has isError unset and its
\* text carries the status code and the body.
C19_RefusalIsFailureButRaw ==
    refused
    => /\ refusalReported
       /\ (raw.ran /\ Requests(raw.res) # {})
          => /\ ~toolResult(raw.res).isError
             /\ raw.res.err = NoErr
             /\ raw.res.text = Itoa(env.StatusCode) \o <<" ">> \o s_respBody

\* the three invocations have each had a request refused
C19_Witness ==
    /\ refused
    /\ cli.ran /\ Requests(cli.res) # {} /\ cli.res.err # NoErr
    /\ mcp.ran /\ Requests(mcp.res) # {} /\ mcp.res.err # NoErr
    /\ raw.ran /\ Requests(raw.res) # {}

----------------------------------------------------------------------------
(* Shape of the command tree (SpecTree) *)

\* the path of a created command: the names from its top-level ancestor
RECURSIVE pathOf(_)
pathOf(id) ==
    IF nodes[id].parent = 0 THEN nodes[id].Use
    ELSE pathOf(nodes[id].parent) \o s_slash \o nodes[id].Use

\* the commands created for a path
nodesAt(path) == {id \in 1..Len(nodes) : pathOf(id) = path}

operationPaths == {manifest[k].Command : k \in 1..Len(manifest)}

\* the proper prefixes, ending before a '/', of the operation paths
containerPaths ==
    UNION {{SubSeq(p, 1, i - 1) : i \in {j \in 1..Len(p) : p[j] = "/"}} :
             p \in operationPaths}
    \ operationPaths

\* C20: once the tree is built, whatever the order of the operations, every
\* operation path has a command whose behaviour is bound to that operation,
\* every path prefix that is no operation path has a container without
\* behaviour, and no path has two commands.
C20_TreeShape ==
    built = Len(manifest)
    => /\ \A k \in 1..Len(manifest) :
             \E id \in nodesAt(manifest[k].Command) : nodes[id].RunE = k
       /\ \A p \in containerPaths :
             /\ nodesAt(p) # {}
             /\ \A id \in nodesAt(p) : nodes[id].RunE = 0
       /\ \A id \in 1..Len(nodes) : Cardinality(nodesAt(pathOf(id))) = 1

----------------------------------------------------------------------------
(* Body assembly (SpecBuild) *)

\* the operation sends a body: its method is POST, PUT or PATCH
bodyOp(cmdDef) == cmdDef.Method \in BodyMethods /\ cmdDef.HasInput

\* the values resolved for one adapter: the call's arguments, under them the
\* keys of the bulk-input file when the adapter reads one
resolvedValues(sup, f) == {p \in f.data : ~Has(sup, p[1])} \cup sup

\* the body has exactly what body assembly puts in it: every switch with its
\* resolved value or its default, a non-positional field iff it has a
\* resolved value or a default, and nothing undeclared
assembled(body, cmdDef, vals) ==
    /\ \A i \in 1..Len(cmdDef.Flags) :
          /\ Has(body, cmdDef.Flags[i].Name)
          /\ Get(body, cmdDef.Flags[i].Name)
               = (IF Has(vals, cmdDef.Flags[i].Name)
                  THEN Get(vals, cmdDef.Flags[i].Name)
                  ELSE JBool(cmdDef.Flags[i].Default))
    /\ \A i \in 1..Len(cmdDef.Fields) :
          ~cmdDef.Fields[i].Positional
          => (Has(body, cmdDef.Fields[i].Name)
                <=> (Has(vals, cmdDef.Fields[i].Name)
                     \/ cmdDef.Fields[i].Default # JNull))
    /\ Keys(body) \subseteq declaredNames(cmdDef)

\* C21: for a POST, PUT or PATCH operation the assembled body contains every
\* declared switch (the supplied value, else its default), contains a
\* non-positional field iff a value was supplied or a default is declared,
\* and contains no key that is not a declared field or switch.
C21_BodyKeys ==
    bodyOp(op)
    => /\ cli.ran => \A r \in Requests(cli.res) :
                        assembled(r.body, op, resolvedValues(supplied, file))
       /\ mcp.ran => \A r \in Requests(mcp.res) :
                        assembled(r.body, op, supplied)

\* the part of C21 that the tool dispatch keeps
C21_ToolBodyKeys ==
    (bodyOp(op) /\ mcp.ran)
    => \A r \in Requests(mcp.res) : assembled(r.body, op, supplied)

\* C22: for an operation whose method is GET or DELETE the backend request
\* carries no body, whatever fields, switches, defaults or file values are
\* resolved, in the CLI leaf and in the tool dispatch.
C22_NoBodyOnGetDelete ==
    op.Method \in {s_GET, s_DELETE}
    => /\ cli.ran => \A r \in Requests(cli.res) : ~r.hasBody /\ r.body = EmptyMap
       /\ mcp.ran => \A r \in Requests(mcp.res) : ~r.hasBody /\ r.body = EmptyMap

\* a DELETE with a supplied field, a file value, a default and a switch has
\* been sent by both adapters
C22_Witness ==
    /\ op = opDel /\ Has(supplied, s_x) /\ Has(supplied, s_force)
    /\ file = File({<<s_x, JNum(s_2)>>})
    /\ cli.ran /\ Requests(cli.res) # {}
    /\ mcp.ran /\ Requests(mcp.res) # {}

----------------------------------------------------------------------------
(* The leaf's positional arguments (SpecBuild) *)

\* the required positional fields left without an argument when the
\* positional fields take the arguments in declaration order
RECURSIVE unboundRequired(_, _, _, _)
unboundRequired(fields, i, argIndex, nargs) ==
    IF i > Len(fields) THEN {}
    ELSE IF ~fields[i].Positional THEN unboundRequired(fields, i + 1, argIndex, nargs)
    ELSE (IF argIndex >= nargs /\ fields[i].Required THEN {i} ELSE {})
         \cup unboundRequired(fields, i + 1, argIndex + 1, nargs)

\* the CLI call of the state and the first field it leaves unbound, 0 if none
cliCall == CliInvocation(op, supplied, file, cidFlag)
firstUnbound ==
    LET u == IF op.HasInput
             THEN unboundRequired(op.Fields, 1, 0, Len(cliCall.args)) ELSE {}
    IN  IF u = {} THEN 0 ELSE CHOOSE i \in u : \A j \in u : i <= j

\* the outcome C23 states for the unbound field: nothing built or sent, the
\* enumeration shown or the missing-argument error naming the field
guidedOrMissing(res, field) ==
    /\ NetworkCalls(res.log) = {} /\ Requests(res) = {}
    /\ \A i \in 1..Len(res.log) : res.log[i].op # "config.Load"
    /\ IF Len(field.Enum) > 0
       THEN res.err = NoErr /\ res.log = <<Eff("showEnumOptions")>>
       ELSE /\ res.err = Msg("missing required argument: %s", 0, field.Name)
            /\ res.log = <<>>

\* C23: a CLI leaf invocation that leaves a required positional field without
\* an argument builds and sends no request; the enumeration of that field is
\* shown when it declares one, otherwise the invocation fails with the
\* missing-required-argument error naming the field.
C23_MissingPositional ==
    (cli.ran /\ firstUnbound # 0 /\ ~unknownFlag(cliCall, op))
    => guidedOrMissing(cli.res, op.Fields[firstUnbound])

\* the part of C23 that holds: nothing is built or sent, and the guidance or
\* the missing-argument error is the outcome once every required flag is set
C23_MissingPositionalNoRequest ==
    (cli.ran /\ firstUnbound # 0 /\ ~unknownFlag(cliCall, op))
    => /\ NetworkCalls(cli.res.log) = {} /\ Requests(cli.res) = {}
       /\ ~missingRequiredFlag(cliCall, op)
          => guidedOrMissing(cli.res, op.Fields[firstUnbound])

----------------------------------------------------------------------------
(* The flags of a leaf and the schema of a tool (SpecSurface) *)

fieldsOf(cmdDef) ==
    IF cmdDef.HasInput THEN {cmdDef.Fields[i] : i \in 1..Len(cmdDef.Fields)} ELSE {}
switchesOf(cmdDef) ==
    IF cmdDef.HasInput THEN {cmdDef.Flags[i] : i \in 1..Len(cmdDef.Flags)} ELSE {}

\* the names of the flags every leaf has or has under a condition of its own
surfaceFlagNames(cmdDef) ==
    (IF fieldsOf(cmdDef) # {} THEN {s_file} ELSE {})
    \cup (IF Contains(cmdDef.Endpoint, s_cid) THEN {s_cidArg} ELSE {})
    \cup {s_json}
    \cup (IF cmdDef.ReturnsJob THEN {s_wait} ELSE {})

\* the fields that are given a flag: not positional, of a kind with a flag type
flaggedFields(cmdDef) ==
    {f \in fieldsOf(cmdDef) : ~f.Positional /\ f.Type \in {"string", "integer", "array"}}

schemaType(kind) ==
    CASE kind = "integer" -> "number"
      [] kind = "array" -> "array"
      [] OTHER -> "string"

\* C25: the tool's input schema has one property per declared field (type
\* number for integer, array for array, string for any other kind) plus one
\* boolean property per declared switch, and its required list holds exactly
\* the names of the fields marked required: no switch, no optional field,
\* and every required field, positional or not.
C25_ToolSchema ==
    tool.built
    => LET schema == tool.tool.InputSchema
           required == {schema.Required[i] : i \in 1..Len(schema.Required)}
       IN  /\ Keys(schema.Properties)
                = {f.Name : f \in fieldsOf(op)} \cup {s.Name : s \in switchesOf(op)}
           /\ Cardinality(schema.Properties) = Cardinality(Keys(schema.Properties))
           /\ \A f \in fieldsOf(op) :
                 Get(schema.Properties, f.Name).Type = schemaType(f.Type)
           /\ \A s \in switchesOf(op) :
                 Get(schema.Properties, s.Name).Type = "boolean"
           /\ required = {f.Name : f \in {g \in fieldsOf(op) : g.Required}}
           /\ Len(schema.Required) = Cardinality(required)

\* the tool of an operation with a required positional field, an optional
\* array field, an optional integer field and a switch
C25_Witness ==
    /\ tool.built
    /\ op.HasInput /\ op.Fields = <<fName, fTags, fX>> /\ op.Flags = <<flForce>>
    /\ tool.tool.InputSchema.Required = <<s_name>>
    /\ Cardinality(tool.tool.InputSchema.Properties) = 4

----------------------------------------------------------------------------
(* The server keeps no session; the end of the stream (Spec) *)

\* the response computed for the request being processed is the one its
\* method asks for, given the manifest and the executor's outcome only
answeredAlike ==
    (pc \in {"call", "write"} /\ cur.kind = "request")
    => LET req == Request(cur)
       IN  CASE cur.method = "initialize" ->
                    resp = Response(req.ID, InitializeResult, ErrorNil)
             [] cur.method = "tools/list" ->
                    resp = Response(req.ID, ToolsListResult(Server_buildTools(manifest)),
                                    ErrorNil)
             [] cur.method = "ping" -> resp = Response(req.ID, EmptyResult, ErrorNil)
             [] cur.method = "tools/call" ->
                    /\ resp = Server_handleToolsCall(req, exec)
                    /\ cur.params.form \in {"absent", "invalid"} => exec = NoExec
                    /\ cur.params.form \notin {"absent", "invalid"}
                       => \E e \in ServerEnvs : exec = toolsCallExec(req, manifest, e)
             [] OTHER ->
                    resp = Response(req.ID, ResultNil,
                                    Error(MethodNotFound, "Method not found"))

\* C26: the server keeps no session: the response to a request depends on
\* the request, the manifest and the external collaborators only, never on
\* the requests that came before; tools/list, tools/call and ping are served
\* the same whether or not initialize was received; no request changes the
\* manifest.
C26_NoSession ==
    /\ []answeredAlike
    /\ [][manifest' = manifest]_vars

\* tools/list is being answered with the tools as the first line of a run,
\* no initialize before it
C26_Witness ==
    /\ pc = "write" /\ nread = 1 /\ stdout = <<>>
    /\ cur.kind = "request" /\ cur.method = "tools/list"
    /\ resp.Result.t = "tools" /\ Len(manifest) = 2

\* the lines the client wrote before the stream ended, a last one without a
\* newline included
received == sent + (IF stdin = "tail" THEN 1 ELSE 0)

\* C27: every request line received before end-of-stream is processed and
\* answered before the server stops, a last line not terminated by a newline
\* included.
C27_AllAnswered ==
    (pc = "stopped" /\ stdin \in {"eof", "tail"})
    => /\ nread = received
       /\ inflight = {}
       /\ \A n \in 1..nread :
             Cardinality(answers(n))
                = IF hist[n] \in {"malformed", "request"} THEN 1 ELSE 0

\* the part of C27 that holds: every line terminated by a newline is
\* processed and answered before the server stops at end-of-stream
C27_TerminatedAnswered ==
    (pc = "stopped" /\ stdin \in {"eof", "tail"})
    => /\ nread = sent
       /\ inflight = {}
       /\ \A n \in 1..nread :
             Cardinality(answers(n))
                = IF hist[n] \in {"malformed", "request"} THEN 1 ELSE 0

----------------------------------------------------------------------------
(* Manifest loading and the file cache (SpecLoad, SpecCache) *)

\* C28: a fresh version-check entry never hides an outdated manifest: a Load
\* that follows, within the entry's lifetime, a Load that saw another remote
\* version and failed to fetch or store the manifest still contacts the
\* server; equivalently, whenever the version-check entry is unexpired the
\* version of the local manifest, when there is one, is the version recorded
\* in the entry.
C28_NoStaleManifest ==
    /\ (versionCheckFresh /\ localFile # "")
       => localFile = Get(Manager_load(cacheFile), versionCheckCacheKey).Value
    /\ (loaded.ran /\ loaded.owedBefore /\ loaded.freshBefore) => loaded.contacted

\* the two halves of C28, apart
C28_FreshMeansCurrent ==
    (versionCheckFresh /\ localFile # "")
    => localFile = Get(Manager_load(cacheFile), versionCheckCacheKey).Value
C28_LaterLoadContacts ==
    (loaded.ran /\ loaded.owedBefore /\ loaded.freshBefore) => loaded.contacted

----------------------------------------------------------------------------
(* C29 *)

lastAnswer == login.answers[Len(login.answers)]

\* the latest poll reported success with Firebase settings and the exchange
\* succeeded
loginSucceeded ==
    /\ login.answers # <<>>
    /\ lastAnswer.ok /\ lastAnswer.resp.Success /\ lastAnswer.resp.Firebase
    /\ login.exchanged

\* every poll was made before the deadline, and every poll but the latest
\* (every poll, while the flow is still polling) answered authorization_pending
pollsWhilePending ==
    \A i \in 1..Len(login.answers) :
        /\ login.answers[i].at < MaxPolls
        /\ (i < Len(login.answers) \/ login.pc = "polling") =>
               /\ login.answers[i].ok
               /\ ~login.answers[i].resp.Success
               /\ login.answers[i].resp.Error = "authorization_pending"

====
